---- MODULE Spec2Model ----
(***************************************************************************)
(* A model of the data-collection pipeline: the PostgreSQL store of        *)
(* common/db.py (projects, versions, analyses, quality_gates), the GitHub  *)
(* client of common/github_client.py, the ingestion operator of            *)
(* plugins/operators/github_operator.py, the analysis operator of          *)
(* plugins/operators/designite_operator.py, the quality gate operator of   *)
(* plugins/operators/repoquester_operator.py and the seeding scripts of    *)
(* scripts/init_db.py and scripts/reset_db.py.                             *)
(*                                                                         *)
(* Every db.py function runs in one transaction (get_connection commits on *)
(* success and rolls back on exception), so each call is one atomic step.  *)
(* The operators run as independent processes over the same store; their   *)
(* steps interleave at the transaction boundaries and at the external      *)
(* calls (GitHub API, git, Designite).  The db_path keyword that the       *)
(* operators pass to the db layer selects the connection only and has no   *)
(* effect on what a statement does to the tables.                          *)
(***************************************************************************)
EXTENDS Integers, Sequences, FiniteSets, TLC

\* ------------------------------------------------------------------ bounds
MaxTime == 2
MaxExecutes == 2

\* --------------------------------------------------------------- constants
\* SQL NULL / Python None for integer-valued columns (ids and timestamps start at 1).
NULL == 0

\* The ids of the seeded projects (data/repo_urls.txt holds one full_name per line).
ProjectIds == {1, 2}
\* Head commits the GitHub API may report, and the first line of their messages.
Commits == {"abc123", "def456"}
Message(sha) == IF sha = "abc123" THEN "initial import" ELSE "fix parser"
NoCommit == "None"

Runs == {"runA", "runB"}
Workers == {"w1", "w2"}

\* common/models.py ProjectLanguage
JAVA == "Java"
PYTHON == "Python"
UNKNOWN == "unknown"
ProjectLanguage == {JAVA, PYTHON, UNKNOWN}

\* common/models.py AnalysisStatus
PENDING == "pending"
RUNNING == "running"
SUCCESS == "success"
FAILED == "failed"
SKIPPED == "skipped"
AnalysisStatus == {PENDING, RUNNING, SUCCESS, FAILED, SKIPPED}

\* The value of the GitHub API "language" field ("None" is a JSON null).
GitHubLanguages == {"Java", "PYTHON", "Go", "None"}
Branches == {"main", "dev"}
\* Responses of GET /repos/{full_name}: the fields the pipeline reads.
MetaResponses ==
    {[language |-> "Java", default_branch |-> "main", stars |-> 0],
     [language |-> "PYTHON", default_branch |-> "dev", stars |-> 1],
     [language |-> "Go", default_branch |-> "main", stars |-> 0],
     [language |-> "None", default_branch |-> "dev", stars |-> 1]}
\* The responses seen while two runs overlap.
OverlapResponses ==
    {m \in MetaResponses : m.language \in {"Java", "None"}}

\* The seed list: full_name, owner and repo_name of each tracked repository.
FullName(i) == IF i = 1 THEN "acme/widget" ELSE IF i = 2 THEN "beta/app" ELSE "corp/lib"
Owner(i) == IF i = 1 THEN "acme" ELSE IF i = 2 THEN "beta" ELSE "corp"
RepoName(i) == IF i = 1 THEN "widget" ELSE IF i = 2 THEN "app" ELSE "lib"

\* Parsed Designite output: the dict built by _parse_output ("empty" is {}).
Payloads == {"empty", "metrics"}

VARIABLES
    \* the store
    projects, versions, analyses,
    project_seq, version_seq, analysis_seq,
    quality_gates, gate_seq,
    now,
    \* the writes committed to the store, in commit order
    log,
    \* GitHubIngestionOperator.execute, one per run
    run_pc, run_projects, run_idx, run_meta, summary, run_seen,
    \* DesigniteOperator.execute, one per worker process
    pc, op_version, op_language, analysis_id, results, ret, exc,
    clone_started, executes,
    \* GitHubClient: the token pool, the clock and one _get call
    pool, clock, get_pc, attempt, cur, wake, tried, waits, response, get_exc,
    \* the GITHUB_TOKENS / GITHUB_TOKEN settings the client was constructed under
    config,
    \* the list a caller got from get_versions_pending_analysis
    queue,
    \* one run of a seeding script (init_db.py, reset_db.py)
    script,
    \* RepoQuesterOperator.execute
    rq

storeVars == <<projects, versions, analyses, project_seq, version_seq, analysis_seq,
              quality_gates, gate_seq>>
runVars == <<run_pc, run_projects, run_idx, run_meta, summary, run_seen>>
opVars == <<pc, op_version, op_language, analysis_id, results, ret, exc, clone_started, executes>>
clientVars == <<pool, clock, get_pc, attempt, cur, wake, tried, waits, response, get_exc>>
vars == <<storeVars, now, log, queue, config, script, rq, runVars, opVars, clientVars>>

\* ------------------------------------------------------------------ helpers
Lower(s) ==
    CASE s = "Java" -> "java"
      [] s = "PYTHON" -> "python"
      [] s = "Go" -> "go"
      [] OTHER -> s

\* from_github comparing the reported name as it is, without value.lower()
FromGithubCaseSensitive(value) ==
    IF value = "None" THEN UNKNOWN
    ELSE IF value = "java" THEN JAVA
    ELSE IF value = "python" THEN PYTHON
    ELSE UNKNOWN

\* ProjectLanguage.from_github: None is unknown; otherwise value.lower() is looked up
\* in {"java", "python"}, unknown when it is not there.
FromGithub(value) ==
    IF value = "None" THEN UNKNOWN
    ELSE LET l == Lower(value) IN
         IF l = "java" THEN JAVA
         ELSE IF l = "python" THEN PYTHON
         ELSE UNKNOWN

\* The collation rank of a seeded full_name ("acme/widget" < "beta/app" < "corp/lib").
NameRank(name) == CHOOSE i \in 1..3 : FullName(i) = name

RECURSIVE SortedByName(_)
\* ORDER BY full_name over a set of project rows
SortedByName(rows) ==
    IF rows = {} THEN << >>
    ELSE LET first == CHOOSE r \in rows :
                          \A q \in rows : NameRank(r.full_name) <= NameRank(q.full_name)
         IN <<first>> \o SortedByName(rows \ {first})

\* ---------------------------------------------------------------- the store
\* upsert_project as DELETE of the old row followed by an INSERT of the submitted one
UpsertProjectReplaceRow(rows, seq, project) ==
    LET hit == {r \in rows : r.full_name = project.full_name} IN
    [rows |-> (rows \ hit) \cup {[project EXCEPT !.id = seq]},
     seq |-> seq + 1,
     id |-> seq]

\* upsert_project: INSERT ... ON CONFLICT (full_name) DO UPDATE SET language, is_active
\* RETURNING id.  The SERIAL default is evaluated for every attempted insert.
UpsertProject(rows, seq, project) ==
    LET hit == {r \in rows : r.full_name = project.full_name} IN
    IF hit = {}
    THEN [rows |-> rows \cup {[id |-> seq,
                               full_name |-> project.full_name,
                               owner |-> project.owner,
                               repo_name |-> project.repo_name,
                               language |-> project.language,
                               is_active |-> project.is_active,
                               added_at |-> project.added_at]},
          seq |-> seq + 1,
          id |-> seq]
    ELSE LET old == CHOOSE r \in hit : TRUE IN
         [rows |-> (rows \ {old}) \cup
                   {[old EXCEPT !.language = project.language,
                                !.is_active = project.is_active]},
          seq |-> seq + 1,
          id |-> old.id]

\* get_active_projects: WHERE is_active = TRUE ORDER BY full_name
GetActiveProjects(rows) == SortedByName({r \in rows : r.is_active})

\* insert_version_if_new with ON CONFLICT DO UPDATE in place of DO NOTHING
InsertVersionOverwrite(rows, seq, version) ==
    LET hit == {r \in rows : r.project_id = version.project_id
                             /\ r.commit_sha = version.commit_sha} IN
    IF hit = {}
    THEN [rows |-> rows \cup {[version EXCEPT !.id = seq]}, seq |-> seq + 1, id |-> seq]
    ELSE LET old == CHOOSE r \in hit : TRUE IN
         [rows |-> (rows \ {old}) \cup {[version EXCEPT !.id = old.id]},
          seq |-> seq + 1, id |-> NULL]

\* insert_version_if_new without the unique constraint on (project_id, commit_sha)
InsertVersionAlways(rows, seq, version) ==
    [rows |-> rows \cup {[version EXCEPT !.id = seq]}, seq |-> seq + 1, id |-> seq]

\* insert_version_if_new: INSERT ... ON CONFLICT (project_id, commit_sha) DO NOTHING
\* RETURNING id; the result is the new id, or NULL (None) when the row existed.
InsertVersionIfNew(rows, seq, version) ==
    LET hit == {r \in rows : r.project_id = version.project_id
                             /\ r.commit_sha = version.commit_sha} IN
    IF hit = {}
    THEN [rows |-> rows \cup {[version EXCEPT !.id = seq]}, seq |-> seq + 1, id |-> seq]
    ELSE [rows |-> rows, seq |-> seq + 1, id |-> NULL]

\* The analyses row of a given id / the rows of a given version.
AnalysisById(rows, id) == {a \in rows : a.id = id}
AnalysesOfVersion(rows, version_id) == {a \in rows : a.version_id = version_id}

\* create_analysis as INSERT ... ON CONFLICT (version_id) DO UPDATE, resetting the row
CreateAnalysisReset(rows, seq, version_id, project_id) ==
    LET hit == AnalysesOfVersion(rows, version_id)
        fresh == [id |-> seq, version_id |-> version_id, project_id |-> project_id,
                  status |-> PENDING, started_at |-> NULL, finished_at |-> NULL,
                  error_message |-> "None", results_json |-> "None"]
    IN IF hit = {}
       THEN [rows |-> rows \cup {fresh}, seq |-> seq + 1, id |-> seq, error |-> "none"]
       ELSE LET old == CHOOSE a \in hit : TRUE IN
            [rows |-> (rows \ {old}) \cup {[fresh EXCEPT !.id = old.id]},
             seq |-> seq + 1, id |-> old.id, error |-> "none"]

\* create_analysis without the UNIQUE (version_id) constraint
CreateAnalysisNoConstraint(rows, seq, version_id, project_id) ==
    [rows |-> rows \cup {[id |-> seq, version_id |-> version_id, project_id |-> project_id,
                          status |-> PENDING, started_at |-> NULL, finished_at |-> NULL,
                          error_message |-> "None", results_json |-> "None"]},
     seq |-> seq + 1, id |-> seq, error |-> "none"]

\* create_analysis: a plain INSERT of a pending row RETURNING id.  UNIQUE (version_id)
\* makes the statement fail with a unique violation when the version has a row; the
\* transaction is rolled back and the exception propagates.
CreateAnalysis(rows, seq, version_id, project_id) ==
    IF AnalysesOfVersion(rows, version_id) = {}
    THEN [rows |-> rows \cup {[id |-> seq, version_id |-> version_id,
                               project_id |-> project_id,
                               status |-> PENDING, started_at |-> NULL,
                               finished_at |-> NULL,
                               error_message |-> "None", results_json |-> "None"]},
          seq |-> seq + 1, id |-> seq, error |-> "none"]
    ELSE [rows |-> rows, seq |-> seq + 1, id |-> NULL, error |-> "UniqueViolation"]

\* update_analysis_started: UPDATE analyses SET status, started_at WHERE id
UpdateAnalysisStarted(rows, id, t) ==
    {IF a.id = id THEN [a EXCEPT !.status = RUNNING, !.started_at = t] ELSE a : a \in rows}

\* update_analysis_success: UPDATE analyses SET status, finished_at, results_json WHERE id
UpdateAnalysisSuccess(rows, id, t, payload) ==
    {IF a.id = id
     THEN [a EXCEPT !.status = SUCCESS, !.finished_at = t, !.results_json = payload]
     ELSE a : a \in rows}

\* update_analysis_failed storing the status skipped
UpdateAnalysisFailedAsSkipped(rows, id, t, error_message) ==
    {IF a.id = id
     THEN [a EXCEPT !.status = SKIPPED, !.finished_at = t, !.error_message = error_message]
     ELSE a : a \in rows}

\* update_analysis_failed without the finish timestamp
UpdateAnalysisFailedNoFinish(rows, id, t, error_message) ==
    {IF a.id = id
     THEN [a EXCEPT !.status = FAILED, !.error_message = error_message]
     ELSE a : a \in rows}

\* update_analysis_failed: UPDATE analyses SET status, finished_at, error_message WHERE id
UpdateAnalysisFailed(rows, id, t, error_message) ==
    {IF a.id = id
     THEN [a EXCEPT !.status = FAILED, !.finished_at = t, !.error_message = error_message]
     ELSE a : a \in rows}

\* analysis_exists_for_version with 'failed' missing from the IN list
AnalysisExistsSuccessOnly(rows, version_id) ==
    Cardinality({a \in rows : a.version_id = version_id
                              /\ a.status \in {SUCCESS, SKIPPED}}) > 0

\* analysis_exists_for_version counting every row of the version
AnalysisExistsAnyStatus(rows, version_id) ==
    Cardinality({a \in rows : a.version_id = version_id}) > 0

\* analysis_exists_for_version: SELECT COUNT(*) ... WHERE version_id = %s AND status IN
\* ('success', 'failed', 'skipped'); returns row[0] > 0.
AnalysisExistsForVersion(rows, version_id) ==
    Cardinality({a \in rows : a.version_id = version_id
                              /\ a.status \in {"success", "failed", "skipped"}}) > 0

\* The WHERE clause of get_versions_pending_analysis: versions LEFT JOIN analyses
\* ON a.version_id = v.id WHERE a.id IS NULL.
VersionsWithoutAnalysis(vrows, arows) ==
    {v \in vrows : \A a \in arows : a.version_id # v.id}

\* the same query ordered by the primary key instead of discovered_at
GetVersionsPendingById(vrows, arows) ==
    LET pending == VersionsWithoutAnalysis(vrows, arows)
        n == Cardinality(pending)
    IN {list \in [1..n -> pending] :
          /\ \A i, j \in 1..n : i # j => list[i] # list[j]
          /\ \A i, j \in 1..n : i < j => list[i].id <= list[j].id}

\* get_versions_pending_analysis: the rows above ORDER BY discovered_at.  Rows with
\* equal discovered_at come in either order, so the result is one of these lists.
GetVersionsPendingAnalysis(vrows, arows) ==
    LET pending == VersionsWithoutAnalysis(vrows, arows)
        n == Cardinality(pending)
    IN {list \in [1..n -> pending] :
          /\ \A i, j \in 1..n : i # j => list[i] # list[j]
          /\ \A i, j \in 1..n : i < j => list[i].discovered_at <= list[j].discovered_at}

\* The nine dimensions of a RepoQuester result (metric_keys of upsert_quality_gate).
Dimensions ==
    {"community", "continuous_integration", "documentation", "history", "management",
     "license", "unit_test", "pull", "releases"}

\* The pass mark of upsert_quality_gate: passed = score > 5
PassMark == 5

\* a score taken from the caller's dict when it carries one
ScoreTrusted(metrics) ==
    IF "score" \in DOMAIN metrics THEN metrics["score"]
    ELSE Cardinality({k \in Dimensions \cap DOMAIN metrics : metrics[k] > 0})

\* score = sum(1 for k in metric_keys if (metrics.get(k) or 0) > 0); a metrics dict is
\* a function on the keys it holds, a key it lacks (or holds as None) counts as 0.
Score(metrics) == Cardinality({k \in Dimensions \cap DOMAIN metrics : metrics[k] > 0})

\* The nine columns written from a metrics dict: metrics.get(k), NULL when absent.
StoredDimensions(metrics) == [k \in Dimensions \cap DOMAIN metrics |-> metrics[k]]

\* an upsert that keeps the stored value of a dimension the submission lacks
UpsertQualityGateMerge(rows, seq, project_id, metrics, run_at) ==
    LET hit == {g \in rows : g.project_id = project_id}
        new == [id |-> seq, project_id |-> project_id, run_at |-> run_at,
                dimensions |-> StoredDimensions(metrics),
                score |-> Score(metrics),
                passed |-> Score(metrics) > PassMark]
    IN IF hit = {}
       THEN [rows |-> rows \cup {new}, seq |-> seq + 1]
       ELSE LET old == CHOOSE g \in hit : TRUE
                kept == [k \in DOMAIN old.dimensions \cup DOMAIN new.dimensions |->
                           IF k \in DOMAIN new.dimensions THEN new.dimensions[k]
                           ELSE old.dimensions[k]]
            IN [rows |-> (rows \ {old}) \cup
                         {[new EXCEPT !.id = old.id, !.dimensions = kept]},
                seq |-> seq + 1]

\* upsert_quality_gate: INSERT ... ON CONFLICT (project_id) DO UPDATE of run_at, the
\* nine dimensions, score and passed.
UpsertQualityGate(rows, seq, project_id, metrics, run_at) ==
    LET hit == {g \in rows : g.project_id = project_id}
        new == [id |-> seq, project_id |-> project_id, run_at |-> run_at,
                dimensions |-> StoredDimensions(metrics),
                score |-> Score(metrics),
                passed |-> Score(metrics) > PassMark]
    IN IF hit = {}
       THEN [rows |-> rows \cup {new}, seq |-> seq + 1]
       ELSE LET old == CHOOSE g \in hit : TRUE IN
            [rows |-> (rows \ {old}) \cup {[new EXCEPT !.id = old.id]}, seq |-> seq + 1]

\* project_passed_quality_gate: None without a row, else bool(passed)
ProjectPassedQualityGate(rows, project_id) ==
    LET hit == {g \in rows : g.project_id = project_id} IN
    IF hit = {} THEN "None"
    ELSE IF (CHOOSE g \in hit : TRUE).passed THEN "True" ELSE "False"

\* ------------------------------------------------------------ GitHubClient
\* _TokenState defaults: remaining = 5000, reset_at = 0; the margin added by
\* seconds_until_reset.
DefaultRemaining == 5000
DefaultResetAt == 0
ResetMargin == 5

\* The configured tokens, in pool order.
TokenNames == <<"ghp_a", "ghp_b", "ghp_c">>

\* HTTP statuses of a response, after the transport retries of _build_session.
Statuses == {200, 403, 404, 429, 503}
\* a client that rotates on 429 only
QuotaStatuses429 == {429}
\* a client that rotates on every client error
QuotaStatuses4xx == {403, 404, 429}
\* if response.status_code in (403, 429)
QuotaStatuses == {403, 429}

\* The clock when the client is looked at, and the rate-limit values a token state or
\* a response header may carry at that time.
StartClock == 1
Remainings == {0, 10, 50, DefaultRemaining}
ResetTimesAt(t) == {DefaultResetAt, t + 2, t + 5, t + 30}
HeaderRemainings == {0, 10}
HeaderResetsAt(t) == {t, t + 2}

Max2(a, b) == IF a >= b THEN a ELSE b

\* _TokenState.is_exhausted at time t
IsExhausted(state, t) == state.remaining = 0 /\ t < state.reset_at

\* seconds_until_reset with the margin left out
SecondsUntilResetNoMargin(state, t) == Max2(state.reset_at - t, 0)

\* _TokenState.seconds_until_reset at time t
SecondsUntilReset(state, t) == Max2(state.reset_at - t, 0) + ResetMargin

\* available = [t for t in self._pool if not t.is_exhausted], as pool indexes
Available(p, t) == {i \in 1..Len(p) : ~IsExhausted(p[i], t)}

\* the first available token, whatever its remaining
FirstAvailableIndex(p, avail) == CHOOSE i \in avail : \A j \in avail : i <= j

\* max(available, key=lambda t: t.remaining): the first of the largest
MaxRemainingIndex(p, avail) ==
    CHOOSE i \in avail :
       \A j \in avail : \/ p[j].remaining < p[i].remaining
                        \/ p[j].remaining = p[i].remaining /\ i <= j

\* min(self._pool, key=lambda t: t.reset_at): the first of the smallest
SoonestIndex(p) ==
    CHOOSE i \in 1..Len(p) :
       \A j \in 1..Len(p) : \/ p[j].reset_at > p[i].reset_at
                            \/ p[j].reset_at = p[i].reset_at /\ i <= j

\* _TokenPool.update: the first state of that token gets remaining and reset_at
PoolUpdate(p, token, remaining, reset_at) ==
    LET hits == {i \in 1..Len(p) : p[i].token = token} IN
    IF hits = {} THEN p
    ELSE LET k == CHOOSE i \in hits : \A j \in hits : i <= j IN
         [p EXCEPT ![k] = [@ EXCEPT !.remaining = remaining, !.reset_at = reset_at]]

\* settings.GITHUB_TOKENS, as the pieces of multi.split(",") after strip() ("" for a
\* blank piece, no piece at all for the empty string), and settings.GITHUB_TOKEN.
NoConfig == [GITHUB_TOKENS |-> << >>, GITHUB_TOKEN |-> ""]
Configs ==
    {[GITHUB_TOKENS |-> m, GITHUB_TOKEN |-> s] :
        m \in {<< >>, <<"">>, <<"ghp_a">>, <<"ghp_a", "", "ghp_b">>},
        s \in {"", "ghp_c"}}
\* The settings under which a pool of the first n tokens was built.
ConfigOf(n) == [GITHUB_TOKENS |-> SubSeq(TokenNames, 1, n), GITHUB_TOKEN |-> ""]

NonBlank(t) == t # ""

\* _resolve_tokens without its last line: nothing configured, no token
ResolveTokensNoAnonymous(cfg) ==
    LET tokens == SelectSeq(cfg.GITHUB_TOKENS, NonBlank) IN
    IF tokens # << >> THEN tokens
    ELSE IF cfg.GITHUB_TOKEN # "" THEN <<cfg.GITHUB_TOKEN>>
    ELSE << >>

\* GitHubClient._resolve_tokens: the non-blank pieces of GITHUB_TOKENS, else
\* GITHUB_TOKEN, else the one empty token of anonymous access.
ResolveTokens(cfg) ==
    LET tokens == SelectSeq(cfg.GITHUB_TOKENS, NonBlank) IN
    IF tokens # << >> THEN tokens
    ELSE IF cfg.GITHUB_TOKEN # "" THEN <<cfg.GITHUB_TOKEN>>
    ELSE <<"">>

\* _TokenPool.__init__: one _TokenState with the defaults per token
TokenPool(tokens) ==
    [i \in 1..Len(tokens) |-> [token |-> tokens[i], remaining |-> DefaultRemaining,
                               reset_at |-> DefaultResetAt]]

\* _TokenPool.__init__ over the first n tokens
FreshPool(n) == TokenPool(SubSeq(TokenNames, 1, n))

\* The pools of n tokens as earlier calls may have left them at time t.
PoolsAt(n, t) ==
    {p \in [1..n -> [token : {TokenNames[i] : i \in 1..n}, remaining : Remainings,
                     reset_at : ResetTimesAt(t)]] :
        \A i \in 1..n : p[i].token = TokenNames[i]}

\* The responses the session may return at time t: a status and, each when the server
\* sends it, the X-RateLimit-Remaining and X-RateLimit-Reset headers.  The session
\* follows redirects and sends no conditional header, so a response is 2xx or an error.
NoHeaders == [has_remaining |-> FALSE, remaining |-> 0, has_reset |-> FALSE, reset_at |-> 0]
ResponsesAt(t) ==
    {[status |-> st, headers |-> h] :
        st \in Statuses,
        h \in {[has_remaining |-> hr, remaining |-> IF hr THEN r ELSE 0,
                has_reset |-> hx, reset_at |-> IF hx THEN x ELSE 0] :
                 hr \in BOOLEAN, r \in HeaderRemainings,
                 hx \in BOOLEAN, x \in HeaderResetsAt(t)}}
NoResponse == [status |-> 0, headers |-> NoHeaders]

\* No client call is in progress.
ClientIdle ==
    /\ pool = << >>
    /\ clock = 0
    /\ get_pc = "idle"
    /\ attempt = 0
    /\ cur = 0
    /\ wake = 0
    /\ tried = {}
    /\ waits = 0
    /\ response = NoResponse
    /\ get_exc = "none"
    /\ config = NoConfig

\* _TokenPool.current up to its return or its time.sleep: with an available token it
\* returns the one with the most remaining; otherwise it picks the token that resets
\* soonest and goes to sleep for seconds_until_reset.
CurrentBegin ==
    /\ get_pc = "current"
    /\ LET avail == Available(pool, clock) IN
       IF avail # {}
       THEN /\ cur' = MaxRemainingIndex(pool, avail)
            /\ get_pc' = "selected"
            /\ UNCHANGED <<wake, waits>>
       ELSE LET soonest == SoonestIndex(pool) IN
            /\ cur' = soonest
            /\ wake' = clock + SecondsUntilReset(pool[soonest], clock)
            /\ waits' = waits + 1
            /\ get_pc' = "sleep"
    /\ UNCHANGED <<log, queue, config, script, rq, storeVars, now, runVars, opVars, pool, clock, attempt, tried,
                   response, get_exc>>

\* _TokenPool.current after time.sleep(wait): soonest.remaining = 5000; return soonest
CurrentWake ==
    /\ get_pc = "sleep"
    /\ clock' = wake
    /\ pool' = [pool EXCEPT ![cur].remaining = DefaultRemaining]
    /\ get_pc' = "selected"
    /\ UNCHANGED <<log, queue, config, script, rq, storeVars, now, runVars, opVars, attempt, cur, wake, tried, waits,
                   response, get_exc>>

PoolInit ==
    /\ clock = StartClock
    /\ pool \in PoolsAt(Len(TokenNames), StartClock)
    /\ get_pc = "current"
    /\ attempt = 0
    /\ cur = 0
    /\ wake = 0
    /\ tried = {}
    /\ waits = 0
    /\ response = NoResponse
    /\ get_exc = "none"
    /\ config = ConfigOf(Len(TokenNames))

\* ------------------------------------------------------------------- seeding
SeedProjects ==
    {[id |-> i, full_name |-> FullName(i), owner |-> Owner(i), repo_name |-> RepoName(i),
      language |-> UNKNOWN, is_active |-> TRUE, added_at |-> 1] : i \in ProjectIds}

\* The versions table after a first ingestion pass: one head commit per project.
VersionIds == {1, 2}
SeedVersions ==
    {[id |-> i, project_id |-> i, commit_sha |-> "abc123",
      commit_message |-> Message("abc123"), discovered_at |-> 1,
      default_branch |-> "main", metadata |-> [stars |-> 0]] : i \in VersionIds}

EmptySummary == [processed |-> 0, new_versions |-> 0, skipped |-> 0, errors |-> << >>]
NoMeta == [language |-> "None", default_branch |-> "main", stars |-> 0]
\* What _process_project was given and what it returned, per project of a run.
NotProcessed ==
    [sha |-> NoCommit, default_branch |-> "None", discovered_at |-> NULL,
     new_version_id |-> NULL, result |-> "none", commit_branch |-> "None"]
NoSeen == [i \in ProjectIds |-> NotProcessed]

\* No seeding script has run.
NoScript == [pc |-> "idle", cmd |-> "none", entries |-> << >>, ok |-> 0, skipped |-> 0,
             exc |-> "none"]

\* RepoQuesterOperator.execute has not been called.
NoGateSummary == [total |-> 0, passed |-> 0, failed |-> 0, errors |-> 0]
RqIdle == [pc |-> "idle", pending |-> << >>, todo |-> << >>, summary |-> NoGateSummary,
           exc |-> "none", written |-> {}, ignored |-> {}]

RunInit ==
    /\ run_pc = [r \in Runs |-> "idle"]
    /\ run_projects = [r \in Runs |-> << >>]
    /\ run_idx = [r \in Runs |-> 1]
    /\ run_meta = [r \in Runs |-> NoMeta]
    /\ summary = [r \in Runs |-> EmptySummary]
    /\ run_seen = [r \in Runs |-> NoSeen]

OpInit ==
    /\ pc = [w \in Workers |-> "idle"]
    /\ op_version = [w \in Workers |-> NULL]
    /\ op_language = [w \in Workers |-> UNKNOWN]
    /\ analysis_id = [w \in Workers |-> NULL]
    /\ results = [w \in Workers |-> "None"]
    /\ ret = [w \in Workers |-> "none"]
    /\ exc = [w \in Workers |-> "none"]
    /\ clone_started = [v \in VersionIds |-> 0]
    /\ executes = 0
    /\ queue = << >>
    /\ script = NoScript
    /\ rq = RqIdle

\* The store as an ingestion run finds it: the seeded projects and, possibly, the
\* head commit of the first project recorded by an earlier run.
EarlierVersions == {v \in SeedVersions : v.id = 1}

IngestStoreInit ==
    /\ quality_gates = {}
    /\ gate_seq = 1
    /\ log = << >>
    /\ projects = SeedProjects
    /\ versions \in {{}, EarlierVersions}
    /\ analyses = {}
    /\ project_seq = Cardinality(ProjectIds) + 1
    /\ version_seq = Cardinality(versions) + 1
    /\ analysis_seq = 1
    /\ now = 1

IngestInit == IngestStoreInit /\ RunInit /\ OpInit /\ ClientIdle

\* ------------------------------------------- GitHubIngestionOperator.execute
CurrentProject(r) == run_projects[r][run_idx[r]]

\* The for loop moves to the next project, or execute returns the summary.
NextProject(r) ==
    /\ run_idx' = [run_idx EXCEPT ![r] = @ + 1]
    /\ run_meta' = [run_meta EXCEPT ![r] = NoMeta]
    /\ run_pc' = [run_pc EXCEPT ![r] =
                    IF run_idx[r] + 1 > Len(run_projects[r]) THEN "done" ELSE "meta"]

\* a commit fetch on a fixed branch
CommitBranchMain(r) == "main"

\* The branch argument of client.get_latest_commit (line 154): meta.default_branch
CommitBranch(r) == run_meta[r].default_branch

\* an except clause that ends the loop after the first failure
RecordErrorAndStop(r, what) ==
    /\ summary' = [summary EXCEPT ![r].errors =
                     Append(@, [project |-> CurrentProject(r).full_name, error |-> what])]
    /\ run_seen' = [run_seen EXCEPT ![r][CurrentProject(r).id] =
                      [NotProcessed EXCEPT
                         !.result = "error",
                         !.commit_branch = IF what = "get_repo_metadata" THEN "None"
                                           ELSE CommitBranch(r)]]
    /\ run_pc' = [run_pc EXCEPT ![r] = "done"]
    /\ UNCHANGED <<quality_gates, gate_seq, log, queue, config, script, rq, run_idx, run_meta>>

\* except Exception: the error is appended to the summary and the loop continues.
RecordError(r, what) ==
    /\ summary' = [summary EXCEPT ![r].errors =
                     Append(@, [project |-> CurrentProject(r).full_name, error |-> what])]
    /\ run_seen' = [run_seen EXCEPT ![r][CurrentProject(r).id] =
                      [NotProcessed EXCEPT
                         !.result = "error",
                         !.commit_branch = IF what = "get_repo_metadata" THEN "None"
                                           ELSE CommitBranch(r)]]
    /\ NextProject(r)

\* execute, lines 85-92: the client is built, the active projects are read.
StartIngest(r) ==
    /\ run_pc[r] = "idle"
    /\ LET ps == GetActiveProjects(projects) IN
       /\ run_projects' = [run_projects EXCEPT ![r] = ps]
       /\ run_pc' = [run_pc EXCEPT ![r] = IF Len(ps) = 0 THEN "done" ELSE "meta"]
    /\ run_idx' = [run_idx EXCEPT ![r] = 1]
    /\ summary' = [summary EXCEPT ![r] = EmptySummary]
    /\ run_seen' = [run_seen EXCEPT ![r] = NoSeen]
    /\ run_meta' = [run_meta EXCEPT ![r] = NoMeta]
    /\ UNCHANGED <<log, queue, config, script, rq, clientVars, storeVars, now, opVars>>

\* _process_project step 1 (lines 131-151): client.get_repo_metadata returns a
\* response or raises; on a response, upsert_project is issued when the detected
\* language differs from the language of the row read at the start of the run.
ProcessMetadata(r, responses) ==
    /\ run_pc[r] = "meta"
    /\ \/ \E m \in responses :
            LET project == CurrentProject(r)
                detected == FromGithub(m.language)
                up == UpsertProject(projects, project_seq,
                                    [project EXCEPT !.language = detected])
            IN /\ run_meta' = [run_meta EXCEPT ![r] = m]
               /\ run_pc' = [run_pc EXCEPT ![r] = "commit"]
               /\ IF detected # project.language
                  THEN /\ projects' = up.rows
                       /\ project_seq' = up.seq
                  ELSE UNCHANGED <<projects, project_seq>>
               /\ UNCHANGED <<run_idx, summary, run_seen>>
       \/ /\ RecordError(r, "get_repo_metadata")
          /\ UNCHANGED <<projects, project_seq>>
    /\ UNCHANGED <<quality_gates, gate_seq, log, queue, config, script, rq, clientVars, versions, analyses, version_seq, analysis_seq, now, opVars,
                   run_projects>>

\* The Version built at lines 164-180 from the commit and the metadata.
NewVersion(r, sha, t) ==
    [id |-> NULL,
     project_id |-> CurrentProject(r).id,
     commit_sha |-> sha,
     commit_message |-> Message(sha),
     discovered_at |-> t,
     default_branch |-> run_meta[r].default_branch,
     metadata |-> [stars |-> run_meta[r].stars]]

\* _process_project step 2 (lines 153-182) and execute lines 96-107:
\* client.get_latest_commit returns the head commit or raises; on a commit,
\* insert_version_if_new runs with discovered_at read from the clock, and the
\* summary counts the project as a new version or as skipped.  A store write that
\* fails (the connection is lost) is rolled back and raises as well.
ProcessCommit(r) ==
    /\ run_pc[r] = "commit"
    /\ \/ \E sha \in Commits, t \in now..MaxTime :
            LET ins == InsertVersionIfNew(versions, version_seq, NewVersion(r, sha, t)) IN
            /\ now' = t
            /\ versions' = ins.rows
            /\ version_seq' = ins.seq
            /\ summary' = [summary EXCEPT
                             ![r].processed = @ + 1,
                             ![r].new_versions = IF ins.id # NULL THEN @ + 1 ELSE @,
                             ![r].skipped = IF ins.id = NULL THEN @ + 1 ELSE @]
            /\ run_seen' = [run_seen EXCEPT ![r][CurrentProject(r).id] =
                              [sha |-> sha,
                               default_branch |-> run_meta[r].default_branch,
                               discovered_at |-> t,
                               new_version_id |-> ins.id,
                               result |-> IF ins.id # NULL THEN "new" ELSE "skipped",
                               commit_branch |-> CommitBranch(r)]]
            /\ NextProject(r)
       \/ /\ \E what \in {"get_latest_commit", "insert_version_if_new"} :
                RecordError(r, what)
          /\ UNCHANGED <<versions, version_seq, now>>
    /\ UNCHANGED <<quality_gates, gate_seq, log, queue, config, script, rq, clientVars, projects, analyses, project_seq, analysis_seq, opVars,
                   run_projects>>

IngestNext ==
    \/ \E r \in Runs : StartIngest(r)
    \/ \E r \in Runs : ProcessMetadata(r, OverlapResponses)
    \/ \E r \in Runs : ProcessCommit(r)

SpecIngest == IngestInit /\ [][IngestNext]_vars

\* ------------------------------------------------- administration of projects
\* An operator of the pipeline deactivates a tracked project: the projects row is
\* written through upsert_project with is_active = FALSE and its other columns as stored.
Deactivate(p) ==
    /\ \E row \in projects :
          /\ row.id = p
          /\ row.is_active
          /\ LET up == UpsertProject(projects, project_seq, [row EXCEPT !.is_active = FALSE])
             IN /\ projects' = up.rows
                /\ project_seq' = up.seq
    /\ UNCHANGED <<quality_gates, gate_seq, log, queue, config, script, rq, clientVars, versions,
                   analyses, version_seq, analysis_seq, now, runVars, opVars>>

\* The lines of a seed file and the names given to --add: tracked repositories and a
\* line that is not of the form owner/repo.
SeedFiles == {<<"acme/widget">>, <<"not-a-name">>, <<"not-a-name", "acme/widget", "beta/app">>}
SeedNames == {"acme/widget", "not-a-name"}

\* full_name.strip().split("/") has two parts
WellFormed(full_name) == \E i \in 1..3 : full_name = FullName(i)

\* Project.from_full_name: ValueError for a name that is not owner/repo; otherwise
\* cls(full_name=..., owner=..., repo_name=...), where the dataclass calls the
\* default_factory of added_at.  That factory is datetime.now(timezone.utc) evaluated
\* when the class was defined, a datetime object, and calling it raises TypeError.
FromFullName(full_name) ==
    IF ~WellFormed(full_name) THEN [error |-> "ValueError"]
    ELSE [error |-> "TypeError"]

RECURSIVE SeedLoop(_, _)
\* for full_name in entries: try: from_full_name, upsert_project; except <catches>.
\* from_full_name returns no Project, so no iteration reaches upsert_project: an
\* exception the except clause names is counted as skipped, any other ends the script.
SeedLoop(entries, catches) ==
    IF entries = << >> THEN [ok |-> 0, skipped |-> 0, exc |-> "none"]
    ELSE LET made == FromFullName(Head(entries)) IN
         IF made.error \in catches
         THEN LET rest == SeedLoop(Tail(entries), catches) IN
              [rest EXCEPT !.skipped = @ + 1]
         ELSE [ok |-> 0, skipped |-> 0, exc |-> made.error]

\* The outcome of a script's loop, as the state of the script.
Ran(cmd, entries, catches) ==
    LET out == SeedLoop(entries, catches) IN
    [pc |-> IF out.exc = "none" THEN "done" ELSE "raised",
     cmd |-> cmd, entries |-> entries, ok |-> out.ok, skipped |-> out.skipped,
     exc |-> out.exc]

\* init_db.py seed_from_file: the loop catches ValueError only.
SeedFromFile(entries) ==
    /\ script.pc = "idle"
    /\ script' = Ran("seed_from_file", entries, {"ValueError"})
    /\ UNCHANGED <<log, queue, config, rq, clientVars, storeVars, now, runVars, opVars>>

\* init_db.py add_single_project: from_full_name and upsert_project without a try.
AddSingleProject(full_name) ==
    /\ script.pc = "idle"
    /\ script' = Ran("add_single_project", <<full_name>>, {})
    /\ UNCHANGED <<log, queue, config, rq, clientVars, storeVars, now, runVars, opVars>>

\* reset_db.py cmd_reseed: the loop catches Exception and counts the entry as skipped.
CmdReseed(entries) ==
    /\ script.pc = "idle"
    /\ script' = Ran("cmd_reseed", entries, {"ValueError", "TypeError"})
    /\ UNCHANGED <<log, queue, config, rq, clientVars, storeVars, now, runVars, opVars>>

\* One ingestion run on its own, over every response of the API, next to the
\* administration of the projects table.
RunNext ==
    \/ StartIngest("runA")
    \/ ProcessMetadata("runA", MetaResponses)
    \/ ProcessCommit("runA")
    \/ \E p \in ProjectIds : Deactivate(p)
    \/ \E entries \in SeedFiles : SeedFromFile(entries)
    \/ \E full_name \in SeedNames : AddSingleProject(full_name)
    \/ \E entries \in SeedFiles : CmdReseed(entries)

SpecRun == IngestInit /\ [][RunNext]_vars

\* ------------------------------------------------- DesigniteOperator.execute
\* The quality gate as it stands when versions are analysed: the first project was
\* evaluated with five dimensions above 0 and did not pass, the second was not
\* evaluated yet.
EvaluatedGates ==
    UpsertQualityGate({}, 1, 1,
                      [k \in {"community", "documentation", "history", "license", "pull"}
                         |-> 1], 1).rows

\* The store as the analysis DAG finds it: projects with detected languages the
\* versions recorded by ingestion and the quality gate results.
AnalysisStoreInit ==
    /\ quality_gates = EvaluatedGates
    /\ gate_seq = Cardinality(EvaluatedGates) + 1
    /\ log = << >>
    /\ projects = {[r EXCEPT !.language = IF r.id = 1 THEN JAVA ELSE UNKNOWN] :
                     r \in SeedProjects}
    /\ versions = SeedVersions
    /\ analyses = {}
    /\ project_seq = Cardinality(ProjectIds) + 1
    /\ version_seq = Cardinality(VersionIds) + 1
    /\ analysis_seq = 1
    /\ now = 1

VersionById(id) == CHOOSE v \in versions : v.id = id

Running == {"guard", "create", "start", "workspace", "analyse", "persist", "except"}

\* The scheduler runs the operator for a version: a first run, a retry of a run that
\* raised or was killed, or a re-run.  version and language are the operator's
\* constructor arguments.
StartExecute(w, v, language) ==
    /\ pc[w] \notin Running
    /\ executes < MaxExecutes
    /\ executes' = executes + 1
    /\ pc' = [pc EXCEPT ![w] = "guard"]
    /\ op_version' = [op_version EXCEPT ![w] = v]
    /\ op_language' = [op_language EXCEPT ![w] = language]
    /\ analysis_id' = [analysis_id EXCEPT ![w] = NULL]
    /\ results' = [results EXCEPT ![w] = "None"]
    /\ ret' = [ret EXCEPT ![w] = "none"]
    /\ exc' = [exc EXCEPT ![w] = "none"]
    /\ UNCHANGED <<log, queue, config, script, rq, clientVars, storeVars, now, runVars, clone_started>>

\* execute without the language guard of lines 114-120
GuardWithoutLanguage(w) ==
    /\ pc[w] = "guard"
    /\ IF AnalysisExistsForVersion(analyses, op_version[w])
       THEN /\ pc' = [pc EXCEPT ![w] = "returned"]
            /\ ret' = [ret EXCEPT ![w] = "skipped"]
       ELSE /\ pc' = [pc EXCEPT ![w] = "create"]
            /\ UNCHANGED ret
    /\ UNCHANGED <<log, queue, config, script, rq, clientVars, storeVars, now, runVars, op_version, op_language, analysis_id,
                   results, exc, clone_started, executes>>

\* a language guard that records the skip as an analyses row of status skipped
GuardWritesSkipped(w) ==
    /\ pc[w] = "guard"
    /\ IF AnalysisExistsForVersion(analyses, op_version[w])
       THEN /\ pc' = [pc EXCEPT ![w] = "returned"]
            /\ ret' = [ret EXCEPT ![w] = "skipped"]
            /\ UNCHANGED <<analyses, analysis_seq>>
       ELSE IF op_language[w] = UNKNOWN
       THEN LET c == CreateAnalysis(analyses, analysis_seq, op_version[w],
                                    VersionById(op_version[w]).project_id) IN
            /\ pc' = [pc EXCEPT ![w] = "returned"]
            /\ ret' = [ret EXCEPT ![w] = "skipped: unknown language"]
            /\ analyses' = {IF a.id = c.id THEN [a EXCEPT !.status = SKIPPED] ELSE a :
                               a \in c.rows}
            /\ analysis_seq' = c.seq
       ELSE /\ pc' = [pc EXCEPT ![w] = "create"]
            /\ UNCHANGED <<ret, analyses, analysis_seq>>
    /\ UNCHANGED <<quality_gates, gate_seq, log, queue, config, script, rq, clientVars, projects, versions,
                   project_seq, version_seq, now, runVars, op_version, op_language,
                   analysis_id, results, exc, clone_started, executes>>

\* execute lines 105-120: the two guards.
Guard(w) ==
    /\ pc[w] = "guard"
    /\ IF AnalysisExistsForVersion(analyses, op_version[w])
       THEN /\ pc' = [pc EXCEPT ![w] = "returned"]
            /\ ret' = [ret EXCEPT ![w] = "skipped"]
       ELSE IF op_language[w] = UNKNOWN
       THEN /\ pc' = [pc EXCEPT ![w] = "returned"]
            /\ ret' = [ret EXCEPT ![w] = "skipped: unknown language"]
       ELSE /\ pc' = [pc EXCEPT ![w] = "create"]
            /\ UNCHANGED ret
    /\ UNCHANGED <<log, queue, config, script, rq, clientVars, storeVars, now, runVars, op_version, op_language, analysis_id,
                   results, exc, clone_started, executes>>

\* an execute whose create_analysis sits inside the try block and whose except clause
\* marks the row of the version failed
CreateInsideTry(w) ==
    /\ pc[w] = "create"
    /\ LET c == CreateAnalysis(analyses, analysis_seq, op_version[w],
                               VersionById(op_version[w]).project_id) IN
       /\ analyses' = c.rows
       /\ analysis_seq' = c.seq
       /\ IF c.error = "none"
          THEN /\ pc' = [pc EXCEPT ![w] = "start"]
               /\ analysis_id' = [analysis_id EXCEPT ![w] = c.id]
               /\ UNCHANGED exc
          ELSE /\ pc' = [pc EXCEPT ![w] = "except"]
               /\ analysis_id' = [analysis_id EXCEPT ![w] =
                     (CHOOSE a \in AnalysesOfVersion(analyses, op_version[w]) : TRUE).id]
               /\ exc' = [exc EXCEPT ![w] = c.error]
    /\ UNCHANGED <<quality_gates, gate_seq, log, queue, config, script, rq, clientVars, projects, versions, project_seq, version_seq, now, runVars,
                   op_version, op_language, results, ret, clone_started, executes>>

\* execute lines 123-127: create_analysis; a unique violation leaves execute.
Create(w) ==
    /\ pc[w] = "create"
    /\ LET c == CreateAnalysis(analyses, analysis_seq, op_version[w],
                               VersionById(op_version[w]).project_id) IN
       /\ analyses' = c.rows
       /\ analysis_seq' = c.seq
       /\ analysis_id' = [analysis_id EXCEPT ![w] = c.id]
       /\ IF c.error = "none"
          THEN /\ pc' = [pc EXCEPT ![w] = "start"]
               /\ UNCHANGED exc
          ELSE /\ pc' = [pc EXCEPT ![w] = "raised"]
               /\ exc' = [exc EXCEPT ![w] = c.error]
    /\ UNCHANGED <<quality_gates, gate_seq, log, queue, config, script, rq, clientVars, projects, versions, project_seq, version_seq, now, runVars,
                   op_version, op_language, results, ret, clone_started, executes>>

\* execute line 128: update_analysis_started.
Start(w) ==
    /\ pc[w] = "start"
    /\ \E t \in now..MaxTime :
          /\ now' = t
          /\ analyses' = UpdateAnalysisStarted(analyses, analysis_id[w], t)
    /\ pc' = [pc EXCEPT ![w] = "workspace"]
    /\ UNCHANGED <<quality_gates, gate_seq, log, queue, config, script, rq, clientVars, projects, versions, project_seq, version_seq, analysis_seq, runVars,
                   op_version, op_language, analysis_id, results, ret, exc,
                   clone_started, executes>>

\* execute lines 137-144: the temporary directory under workspace_dir and its output
\* directory are created, outside the try block; an OSError leaves execute.
Workspace(w) ==
    /\ pc[w] = "workspace"
    /\ \/ /\ pc' = [pc EXCEPT ![w] = "analyse"]
          /\ clone_started' = [clone_started EXCEPT ![op_version[w]] = @ + 1]
          /\ UNCHANGED exc
       \/ /\ pc' = [pc EXCEPT ![w] = "raised"]
          /\ exc' = [exc EXCEPT ![w] = "OSError: workspace"]
          /\ UNCHANGED clone_started
    /\ UNCHANGED <<log, queue, config, script, rq, clientVars, storeVars, now, runVars, op_version, op_language, analysis_id,
                   results, ret, executes>>

\* execute lines 146-154, the body of the try block before the success write:
\* _clone_repo, _run_designite and _parse_output.  A failing git command or a non-zero
\* Designite exit code raises RuntimeError, an unsupported language raises ValueError,
\* listing the output directory may raise OSError; otherwise the parsed dict results.
Analyse(w) ==
    /\ pc[w] = "analyse"
    /\ \/ \E payload \in Payloads :
            /\ op_language[w] \in {JAVA, PYTHON}
            /\ results' = [results EXCEPT ![w] = payload]
            /\ pc' = [pc EXCEPT ![w] = "persist"]
            /\ UNCHANGED exc
       \/ \E e \in {"RuntimeError: git", "RuntimeError: designite", "OSError: output"} :
            /\ pc' = [pc EXCEPT ![w] = "except"]
            /\ exc' = [exc EXCEPT ![w] = e]
            /\ UNCHANGED results
    /\ UNCHANGED <<log, queue, config, script, rq, clientVars, storeVars, now, runVars, op_version, op_language, analysis_id,
                   ret, clone_started, executes>>

\* execute lines 157-163: update_analysis_success, then the summary is returned.
Persist(w) ==
    /\ pc[w] = "persist"
    /\ \E t \in now..MaxTime :
          /\ now' = t
          /\ analyses' = UpdateAnalysisSuccess(analyses, analysis_id[w], t, results[w])
    /\ pc' = [pc EXCEPT ![w] = "returned"]
    /\ ret' = [ret EXCEPT ![w] = "success"]
    /\ UNCHANGED <<quality_gates, gate_seq, log, queue, config, script, rq, clientVars, projects, versions, project_seq, version_seq, analysis_seq, runVars,
                   op_version, op_language, analysis_id, results, exc,
                   clone_started, executes>>

\* execute lines 165-171: update_analysis_failed with str(exc), then raise.
Except(w) ==
    /\ pc[w] = "except"
    /\ \E t \in now..MaxTime :
          /\ now' = t
          /\ analyses' = UpdateAnalysisFailed(analyses, analysis_id[w], t, exc[w])
    /\ pc' = [pc EXCEPT ![w] = "raised"]
    /\ UNCHANGED <<quality_gates, gate_seq, log, queue, config, script, rq, clientVars, projects, versions, project_seq, version_seq, analysis_seq, runVars,
                   op_version, op_language, analysis_id, results, ret, exc,
                   clone_started, executes>>

\* The worker process is killed in the middle of execute: its locals are lost, the
\* store keeps what was committed.
Kill(w) ==
    /\ pc[w] \in Running
    /\ pc' = [pc EXCEPT ![w] = "killed"]
    /\ analysis_id' = [analysis_id EXCEPT ![w] = NULL]
    /\ results' = [results EXCEPT ![w] = "None"]
    /\ exc' = [exc EXCEPT ![w] = "none"]
    /\ UNCHANGED <<log, queue, config, script, rq, clientVars, storeVars, now, runVars, op_version, op_language, ret,
                   clone_started, executes>>

AnalysisInit == AnalysisStoreInit /\ RunInit /\ OpInit /\ ClientIdle

Next ==
    \/ \E w \in Workers, v \in VersionIds, language \in ProjectLanguage :
          StartExecute(w, v, language)
    \/ \E w \in Workers : Guard(w)
    \/ \E w \in Workers : Create(w)
    \/ \E w \in Workers : Start(w)
    \/ \E w \in Workers : Workspace(w)
    \/ \E w \in Workers : Analyse(w)
    \/ \E w \in Workers : Persist(w)
    \/ \E w \in Workers : Except(w)
    \/ \E w \in Workers : Kill(w)

Spec == AnalysisInit /\ [][Next]_vars

\* ------------------------------------------------- analysis_exists_for_version
\* An analyses row of version v in status s, with the fields the writers of that status
\* set; a skipped row is one written by hand, no operator writes it.
AnalysisRow(v, s) ==
    [id |-> v, version_id |-> v, project_id |-> v, status |-> s,
     started_at |-> IF s \in {RUNNING, SUCCESS, FAILED} THEN 1 ELSE NULL,
     finished_at |-> IF s \in {SUCCESS, FAILED} THEN 1 ELSE NULL,
     error_message |-> IF s = FAILED THEN "RuntimeError: git" ELSE "None",
     results_json |-> IF s = SUCCESS THEN "metrics" ELSE "None"]

\* Every content of the analyses table that UNIQUE (version_id) and the CHECK on status
\* admit for the seeded versions.
AnalysesTables ==
    {rows \in SUBSET {AnalysisRow(v, s) : v \in VersionIds, s \in AnalysisStatus} :
        \A v \in VersionIds : Cardinality(AnalysesOfVersion(rows, v)) <= 1}

ExistsInit ==
    /\ quality_gates = {}
    /\ gate_seq = 1
    /\ log = << >>
    /\ projects = SeedProjects
    /\ versions = SeedVersions
    /\ analyses \in AnalysesTables
    /\ project_seq = Cardinality(ProjectIds) + 1
    /\ version_seq = Cardinality(VersionIds) + 1
    /\ analysis_seq = Cardinality(VersionIds) + 1
    /\ now = 1
    /\ RunInit
    /\ OpInit
    /\ ClientIdle

\* A caller asks analysis_exists_for_version for a version and keeps the answer.
AnalysisExistsCall(w, v) ==
    /\ pc[w] = "idle"
    /\ pc' = [pc EXCEPT ![w] = "queried"]
    /\ op_version' = [op_version EXCEPT ![w] = v]
    /\ ret' = [ret EXCEPT ![w] =
                 IF AnalysisExistsForVersion(analyses, v) THEN "True" ELSE "False"]
    /\ UNCHANGED <<log, queue, config, script, rq, clientVars, storeVars, now, runVars, op_language, analysis_id, results, exc,
                   clone_started, executes>>

ExistsNext == \E w \in Workers, v \in VersionIds : AnalysisExistsCall(w, v)

SpecExists == ExistsInit /\ [][ExistsNext]_vars

\* ------------------------------------------------ get_versions_pending_analysis
\* The versions a queue is read from: the head commits of both projects and a later
\* commit of the first one, each discovered at one of these times.
QueueVersionIds == {1, 2, 3}
DiscoveryTimes == {1, 2, 3}
QueueProject(v) == IF v = 3 THEN 1 ELSE v
QueueVersion(v, t) ==
    [id |-> v, project_id |-> QueueProject(v),
     commit_sha |-> IF v = 3 THEN "def456" ELSE "abc123",
     commit_message |-> Message(IF v = 3 THEN "def456" ELSE "abc123"),
     discovered_at |-> t, default_branch |-> "main", metadata |-> [stars |-> 0]]
VersionsTables ==
    {{QueueVersion(v, times[v]) : v \in QueueVersionIds} :
        times \in [QueueVersionIds -> DiscoveryTimes]}

\* Every content of the analyses table for those versions: at most one row per
\* version, in any status.
QueueAnalysesTables ==
    {{[AnalysisRow(v, st[v]) EXCEPT !.project_id = QueueProject(v)] :
         v \in {x \in QueueVersionIds : st[x] # "none"}} :
        st \in [QueueVersionIds -> AnalysisStatus \cup {"none"}]}

PendingInit ==
    /\ quality_gates = {}
    /\ gate_seq = 1
    /\ log = << >>
    /\ projects = SeedProjects
    /\ versions \in VersionsTables
    /\ analyses \in QueueAnalysesTables
    /\ project_seq = Cardinality(ProjectIds) + 1
    /\ version_seq = Cardinality(QueueVersionIds) + 1
    /\ analysis_seq = Cardinality(QueueVersionIds) + 1
    /\ now = 1
    /\ RunInit
    /\ OpInit
    /\ ClientIdle

\* A caller reads the work queue and keeps the list it got.
GetVersionsPendingCall(w) ==
    /\ pc[w] = "idle"
    /\ pc' = [pc EXCEPT ![w] = "queued"]
    /\ queue' \in GetVersionsPendingAnalysis(versions, analyses)
    /\ UNCHANGED <<log, config, script, rq, clientVars, storeVars, now, runVars, op_version, op_language,
                   analysis_id, results, ret, exc, clone_started, executes>>

PendingNext == \E w \in Workers : GetVersionsPendingCall(w)

SpecPending == PendingInit /\ [][PendingNext]_vars

\* ---------------------------------------------------------- GitHubClient._get
\* The tokens of the client that issues requests.
NumTokens == 2

\* a loop that goes on for two more iterations
MaxAttemptsLonger(p) == Len(p) + 3

\* for attempt in range(num_tokens + 1)
MaxAttempts(p) == Len(p) + 1

\* _get is entered: num_tokens = len(self._pool._pool), the loop starts at attempt 0.
StartGet ==
    /\ get_pc = "idle"
    /\ get_pc' = "current"
    /\ attempt' = 0
    /\ tried' = {}
    /\ waits' = 0
    /\ response' = NoResponse
    /\ get_exc' = "none"
    /\ UNCHANGED <<log, queue, config, script, rq, storeVars, now, runVars, opVars, pool, clock, cur, wake>>

\* the rate-limit values with the _TokenState defaults for a missing header
RateLimitOfDefaults(resp, state) ==
    [remaining |-> IF resp.headers.has_remaining THEN resp.headers.remaining
                   ELSE DefaultRemaining,
     reset_at |-> IF resp.headers.has_reset THEN resp.headers.reset_at
                  ELSE DefaultResetAt]

\* int(response.headers.get("X-RateLimit-Remaining", token_state.remaining)) and
\* int(response.headers.get("X-RateLimit-Reset", token_state.reset_at))
RateLimitOf(resp, state) ==
    [remaining |-> IF resp.headers.has_remaining THEN resp.headers.remaining
                   ELSE state.remaining,
     reset_at |-> IF resp.headers.has_reset THEN resp.headers.reset_at
                  ELSE state.reset_at]

\* _get lines 224-232, after self._pool.current returned: the request is sent with the
\* selected token and, whatever the response, the pool is updated from its headers.
Request ==
    /\ get_pc = "selected"
    /\ \E resp \in ResponsesAt(clock) :
          LET state == pool[cur]
              limit == RateLimitOf(resp, state)
          IN /\ response' = resp
             /\ tried' = tried \cup {cur}
             /\ pool' = PoolUpdate(pool, state.token, limit.remaining, limit.reset_at)
             /\ get_pc' = "received"
    /\ UNCHANGED <<log, queue, config, script, rq, storeVars, now, runVars, opVars, clock, cur, wake,
                   waits, attempt, get_exc>>

\* _get lines 234-245: the status is examined.  403 or 429 sets the token's remaining
\* to 0 with the reset_at just read and goes to the next iteration, or to the
\* RuntimeError after the last one; any other error status raises from
\* raise_for_status; otherwise the body is returned.
CheckStatus ==
    /\ get_pc = "received"
    /\ attempt' = attempt + 1
    /\ IF response.status \in QuotaStatuses
       THEN /\ pool' = PoolUpdate(pool, pool[cur].token, 0, pool[cur].reset_at)
            /\ IF attempt + 1 < MaxAttempts(pool)
               THEN /\ get_pc' = "current"
                    /\ UNCHANGED get_exc
               ELSE /\ get_pc' = "raised"
                    /\ get_exc' = "RuntimeError"
       ELSE /\ pool' = pool
            /\ IF response.status >= 400
               THEN /\ get_pc' = "raised"
                    /\ get_exc' = "HTTPError"
               ELSE /\ get_pc' = "returned"
                    /\ UNCHANGED get_exc
    /\ UNCHANGED <<log, queue, config, script, rq, storeVars, now, runVars, opVars, clock, cur, wake,
                   waits, tried, response>>

ClientInit ==
    /\ AnalysisStoreInit /\ RunInit /\ OpInit
    /\ clock = StartClock
    /\ pool \in PoolsAt(NumTokens, StartClock)
    /\ get_pc = "idle"
    /\ attempt = 0
    /\ cur = 0
    /\ wake = 0
    /\ tried = {}
    /\ waits = 0
    /\ response = NoResponse
    /\ get_exc = "none"
    /\ config = ConfigOf(NumTokens)

ClientNext ==
    \/ StartGet
    \/ CurrentBegin
    \/ CurrentWake
    \/ Request
    \/ CheckStatus

SpecClient == ClientInit /\ [][ClientNext]_vars

\* The process that runs _get keeps running: a sleep ends and a request sent gets its
\* response (or the transport's error status) in finite time.
SpecClientFair == ClientInit /\ [][ClientNext]_vars /\ WF_vars(ClientNext)

\* GitHubClient.__init__ called without tokens, as the ingestion operator does: the
\* pool is built over _resolve_tokens(); _TokenPool.__init__ raises ValueError for an
\* empty list.
Construct ==
    /\ get_pc = "new"
    /\ LET tokens == ResolveTokens(config) IN
       IF tokens = << >>
       THEN /\ get_pc' = "raised"
            /\ get_exc' = "ValueError"
            /\ UNCHANGED pool
       ELSE /\ pool' = TokenPool(tokens)
            /\ get_pc' = "idle"
            /\ UNCHANGED get_exc
    /\ UNCHANGED <<log, queue, config, script, rq, storeVars, now, runVars, opVars, clock, attempt, cur,
                   wake, tried, waits, response>>

\* A process under any of the token settings, before it constructs its client.
ConstructInit ==
    /\ AnalysisStoreInit /\ RunInit /\ OpInit
    /\ config \in Configs
    /\ clock = StartClock
    /\ pool = << >>
    /\ get_pc = "new"
    /\ attempt = 0
    /\ cur = 0
    /\ wake = 0
    /\ tried = {}
    /\ waits = 0
    /\ response = NoResponse
    /\ get_exc = "none"

ConstructNext ==
    \/ Construct
    \/ StartGet
    \/ CurrentBegin
    \/ CurrentWake
    \/ Request
    \/ CheckStatus

SpecConstruct == ConstructInit /\ [][ConstructNext]_vars

\* _TokenPool.current called on a pool of three tokens.
PoolSpecInit == AnalysisStoreInit /\ RunInit /\ OpInit /\ PoolInit

PoolNext ==
    \/ CurrentBegin
    \/ CurrentWake

SpecPool == PoolSpecInit /\ [][PoolNext]_vars

\* ------------------------------------------------------- writes to the store
\* The number of writes committed in one behaviour.
MaxWrites == 3

\* The metrics dicts RepoQuester results are saved from: six dimensions positive and
\* the rest 0, or five positive and the rest missing (or None: metrics.get(k) is NULL
\* for both).
SixOfNine ==
    [k \in Dimensions |->
       IF k \in {"community", "documentation", "history", "license", "pull", "releases"}
       THEN 1 ELSE 0]
FiveOnly ==
    [k \in {"community", "documentation", "history", "license", "pull"} |-> 1]
\* Nine dimensions with four of them positive (one above 1) and five at 0, and the
\* same dict with a score and a passed entry put in by the caller.
FourOfNine ==
    [k \in Dimensions |->
       IF k = "community" THEN 2
       ELSE IF k \in {"documentation", "history", "license"} THEN 1 ELSE 0]
FourForged ==
    [k \in Dimensions \cup {"score", "passed"} |->
       IF k = "score" THEN 9 ELSE IF k = "passed" THEN 1 ELSE FourOfNine[k]]
NoMetrics == [k \in {} |-> 0]
MetricsSubmitted == {SixOfNine, FiveOnly, FourOfNine, FourForged}

\* A write as its caller issues it: the function of db.py and its arguments.
NoWrite ==
    [op |-> "none", name |-> 0, project_id |-> NULL, sha |-> NoCommit,
     language |-> UNKNOWN, is_active |-> TRUE, t |-> NULL, id |-> NULL,
     payload |-> "None", metrics |-> NoMetrics]

\* The store as one value.
Store ==
    [projects |-> projects, versions |-> versions, analyses |-> analyses,
     quality_gates |-> quality_gates, project_seq |-> project_seq,
     version_seq |-> version_seq, analysis_seq |-> analysis_seq, gate_seq |-> gate_seq]

\* The Project / the Version a write submits.
ProjectOf(w) ==
    [id |-> NULL, full_name |-> FullName(w.name), owner |-> Owner(w.name),
     repo_name |-> RepoName(w.name), language |-> w.language,
     is_active |-> w.is_active, added_at |-> w.t]
VersionOf(w) ==
    [id |-> NULL, project_id |-> w.project_id, commit_sha |-> w.sha,
     commit_message |-> Message(w.sha), discovered_at |-> w.t,
     default_branch |-> "main", metadata |-> [stars |-> 0]]

\* The store after the transaction of write w committed on store S.
Apply(S, w) ==
    CASE w.op = "upsert_project" ->
           LET r == UpsertProject(S.projects, S.project_seq, ProjectOf(w)) IN
           [S EXCEPT !.projects = r.rows, !.project_seq = r.seq]
      [] w.op = "insert_version_if_new" ->
           LET r == InsertVersionIfNew(S.versions, S.version_seq, VersionOf(w)) IN
           [S EXCEPT !.versions = r.rows, !.version_seq = r.seq]
      [] w.op = "create_analysis" ->
           LET r == CreateAnalysis(S.analyses, S.analysis_seq, w.id, w.project_id) IN
           [S EXCEPT !.analyses = r.rows, !.analysis_seq = r.seq]
      [] w.op = "update_analysis_started" ->
           [S EXCEPT !.analyses = UpdateAnalysisStarted(S.analyses, w.id, w.t)]
      [] w.op = "update_analysis_success" ->
           [S EXCEPT !.analyses = UpdateAnalysisSuccess(S.analyses, w.id, w.t, w.payload)]
      [] w.op = "update_analysis_failed" ->
           [S EXCEPT !.analyses = UpdateAnalysisFailed(S.analyses, w.id, w.t, w.payload)]
      [] w.op = "upsert_quality_gate" ->
           LET r == UpsertQualityGate(S.quality_gates, S.gate_seq, w.project_id,
                                      w.metrics, w.t) IN
           [S EXCEPT !.quality_gates = r.rows, !.gate_seq = r.seq]
      [] OTHER -> S

\* One transaction: write w commits; timestamps are read from the clock of the
\* process when it issues the write.
Commit(w) ==
    /\ Len(log) < MaxWrites
    /\ LET S == Apply(Store, w) IN
       /\ projects' = S.projects
       /\ versions' = S.versions
       /\ analyses' = S.analyses
       /\ quality_gates' = S.quality_gates
       /\ project_seq' = S.project_seq
       /\ version_seq' = S.version_seq
       /\ analysis_seq' = S.analysis_seq
       /\ gate_seq' = S.gate_seq
    /\ log' = Append(log, w)
    /\ UNCHANGED <<now, queue, config, script, rq, runVars, opVars, clientVars>>

IssueTime == Len(log) + 1

\* The seed scripts and the ingestion run call upsert_project.
UpsertProjectWrite ==
    /\ Len(log) < MaxWrites
    /\ \E i \in 1..3, language \in {JAVA, UNKNOWN}, active \in BOOLEAN :
          Commit([NoWrite EXCEPT !.op = "upsert_project", !.name = i,
                                 !.language = language, !.is_active = active,
                                 !.t = IssueTime])

\* The ingestion run calls insert_version_if_new for a project it read.
InsertVersionWrite ==
    \E p \in projects, sha \in Commits :
       Commit([NoWrite EXCEPT !.op = "insert_version_if_new", !.project_id = p.id,
                              !.sha = sha, !.t = IssueTime])

\* The analysis operator calls create_analysis for its version.
CreateAnalysisWrite ==
    \E v \in versions :
       Commit([NoWrite EXCEPT !.op = "create_analysis", !.id = v.id,
                              !.project_id = v.project_id])

\* The analysis operator moves the row it created.
UpdateAnalysisWrite ==
    \E a \in analyses :
       \/ Commit([NoWrite EXCEPT !.op = "update_analysis_started", !.id = a.id,
                                 !.t = IssueTime])
       \/ Commit([NoWrite EXCEPT !.op = "update_analysis_success", !.id = a.id,
                                 !.t = IssueTime, !.payload = "metrics"])
       \/ Commit([NoWrite EXCEPT !.op = "update_analysis_failed", !.id = a.id,
                                 !.t = IssueTime, !.payload = "RuntimeError: git"])

\* The quality gate operator saves the result of a project.
UpsertQualityGateWrite ==
    \E p \in projects, metrics \in MetricsSubmitted :
       Commit([NoWrite EXCEPT !.op = "upsert_quality_gate", !.project_id = p.id,
                              !.metrics = metrics, !.t = IssueTime])

\* The store before the writes: the seeded projects, the second one deactivated by
\* hand, and their first versions.
InitialStore ==
    [projects |-> {[r EXCEPT !.is_active = (r.id = 1)] : r \in SeedProjects},
     versions |-> SeedVersions,
     analyses |-> {},
     quality_gates |-> {},
     project_seq |-> Cardinality(ProjectIds) + 1,
     version_seq |-> Cardinality(VersionIds) + 1,
     analysis_seq |-> 1,
     gate_seq |-> 1]

StoreInit ==
    /\ projects = InitialStore.projects
    /\ versions = InitialStore.versions
    /\ analyses = InitialStore.analyses
    /\ quality_gates = InitialStore.quality_gates
    /\ project_seq = InitialStore.project_seq
    /\ version_seq = InitialStore.version_seq
    /\ analysis_seq = InitialStore.analysis_seq
    /\ gate_seq = InitialStore.gate_seq
    /\ now = 1
    /\ log = << >>
    /\ RunInit /\ OpInit /\ ClientIdle

StoreNext ==
    \/ UpsertProjectWrite
    \/ InsertVersionWrite
    \/ CreateAnalysisWrite
    \/ UpdateAnalysisWrite
    \/ UpsertQualityGateWrite

SpecStore == StoreInit /\ [][StoreNext]_vars

\* ---------------------------------------------------------------- ingestion claims
VersionsOf(rows, project_id, sha) ==
    {v \in rows : v.project_id = project_id /\ v.commit_sha = sha}

\* Run r completes an insert_version_if_new call in this step.
InsertCallBy(r) ==
    /\ run_pc[r] = "commit"
    /\ summary'[r].processed = summary[r].processed + 1

\* C1: a call of insert_version_if_new for (project_id, commit_sha) leaves exactly one
\* versions row for the pair.  When the pair was not stored the call returns the id of
\* the row it inserted; when it was stored (a second call) the call returns None and
\* the versions table is unchanged, whatever message, branch, metadata and
\* discovered_at the call carried.
C1_InsertVersionIdempotent ==
    [][\A r \in Runs :
         InsertCallBy(r) =>
           LET p == CurrentProject(r).id
               call == run_seen'[r][p]
               before == VersionsOf(versions, p, call.sha)
               after == VersionsOf(versions', p, call.sha)
           IN /\ Cardinality(after) = 1
              /\ before = {} =>
                   /\ call.new_version_id # NULL
                   /\ \A v \in versions : v.id # call.new_version_id
                   /\ \E v \in after : v.id = call.new_version_id
                   /\ versions' = versions \cup after
              /\ before # {} =>
                   /\ call.new_version_id = NULL
                   /\ versions' = versions]_vars

\* C1 witness: a second call for a stored (project, commit) returned None although its
\* branch and discovery time differ from the stored row's.
C1_Witness ==
    \E r \in Runs, p \in ProjectIds :
       /\ run_seen[r][p].result = "skipped"
       /\ \E v \in VersionsOf(versions, p, run_seen[r][p].sha) :
             /\ v.default_branch # run_seen[r][p].default_branch
             /\ v.discovered_at # run_seen[r][p].discovered_at

BothDone == \A r \in Runs : run_pc[r] = "done"

\* Both runs fetched the same head commit for project p and neither failed on it.
SameHead(p) ==
    /\ \A r \in Runs : run_seen[r][p].result \in {"new", "skipped"}
    /\ \A r, q \in Runs : run_seen[r][p].sha = run_seen[q][p].sha

\* C2 as claimed: after two overlapping runs that saw the same head commit of a
\* project, the pair has one versions row, neither run recorded an error for the
\* project, and exactly one run counted the commit as new, the other as skipped.
C2_ExactlyOneRunCountsNew ==
    BothDone =>
      \A p \in ProjectIds :
         SameHead(p) =>
           /\ Cardinality(VersionsOf(versions, p, run_seen["runA"][p].sha)) = 1
           /\ Cardinality({r \in Runs : run_seen[r][p].result = "new"}) = 1
           /\ Cardinality({r \in Runs : run_seen[r][p].result = "skipped"}) = 1

\* C2 as amended: after two overlapping runs that saw the same head commit of a
\* project, the pair has one versions row and neither run recorded an error for the
\* project; at most one run counted the commit as new and was returned the row's id,
\* every other run counted it as skipped; no run counted it as new only when the row
\* had been recorded before the runs.  The summaries agree with these counts.
C2_AtMostOneRunCountsNew ==
    BothDone =>
      /\ \A p \in ProjectIds :
           SameHead(p) =>
             LET rows == VersionsOf(versions, p, run_seen["runA"][p].sha)
                 winners == {r \in Runs : run_seen[r][p].result = "new"}
             IN /\ Cardinality(rows) = 1
                /\ Cardinality(winners) <= 1
                /\ \A r \in winners : \E v \in rows : v.id = run_seen[r][p].new_version_id
                /\ winners = {} => rows \subseteq EarlierVersions
                /\ \A r \in Runs : \A i \in 1..Len(summary[r].errors) :
                      summary[r].errors[i].project # FullName(p)
      /\ \A r \in Runs :
           /\ summary[r].new_versions =
                Cardinality({p \in ProjectIds : run_seen[r][p].result = "new"})
           /\ summary[r].skipped =
                Cardinality({p \in ProjectIds : run_seen[r][p].result = "skipped"})

\* C2 witness: both runs finished, saw the same head commit of a project that was not
\* recorded before, and one counted it as new while the other counted it as skipped.
C2_Witness ==
    /\ BothDone
    /\ \E p \in ProjectIds :
          /\ SameHead(p)
          /\ run_seen["runA"][p].result # run_seen["runB"][p].result
          /\ summary["runA"].new_versions + summary["runB"].new_versions >= 1
          /\ summary["runA"].skipped + summary["runB"].skipped >= 1

\* ----------------------------------------------------------------- analysis claims
InTryBlock == {"analyse", "persist", "except"}

\* A live worker process holds the id of analyses row a.
Owned(a) == \E w \in Workers : pc[w] \in Running /\ analysis_id[w] = a.id

\* The version has a row in pending or running, with no finish time, whose worker is
\* gone: the state a killed worker leaves behind.
Stuck(v) ==
    \E a \in AnalysesOfVersion(analyses, v) :
       /\ a.status \in {PENDING, RUNNING}
       /\ a.finished_at = NULL
       /\ ~Owned(a)

\* C3: over any number of execute runs on a version (concurrent, retried, re-run after
\* a kill) the clone-and-analyse work is started at most once; a worker inside the try
\* block holds the id of the row its own create_analysis inserted for the version, and
\* no version has two rows.
C3_AnalysisStartedAtMostOnce ==
    /\ \A v \in VersionIds : clone_started[v] <= 1
    /\ \A v \in VersionIds : Cardinality(AnalysesOfVersion(analyses, v)) <= 1
    /\ \A w \in Workers :
          pc[w] \in InTryBlock =>
            /\ analysis_id[w] # NULL
            /\ \E a \in AnalysesOfVersion(analyses, op_version[w]) : a.id = analysis_id[w]
            /\ \A x \in Workers \ {w} :
                  pc[x] \in InTryBlock => analysis_id[x] # analysis_id[w]

\* C3 witness: the work was started once for a version and a second execute on the
\* same version was stopped by create_analysis.
C3_Witness ==
    \E v \in VersionIds, w \in Workers :
       /\ clone_started[v] = 1
       /\ pc[w] = "raised"
       /\ exc[w] = "UniqueViolation"
       /\ op_version[w] = v

\* Worker w completes its create_analysis call in this step.
CreateCallBy(w) == pc[w] = "create" /\ pc'[w] \in {"start", "raised"}

\* C4: create_analysis for a version that has an analyses row, in any state, raises a
\* unique violation, inserts nothing and leaves the table unchanged; no version ever has
\* two analyses rows.
C4_CreateConflictIsLoud ==
    /\ [](\A v \in VersionIds : Cardinality(AnalysesOfVersion(analyses, v)) <= 1)
    /\ [][\A w \in Workers :
            (CreateCallBy(w) /\ AnalysesOfVersion(analyses, op_version[w]) # {}) =>
               /\ pc'[w] = "raised"
               /\ exc'[w] = "UniqueViolation"
               /\ analysis_id'[w] = NULL
               /\ analyses' = analyses]_vars

\* C4 witness: two workers raced for a version; one holds the row, still pending or
\* running, and the other was refused with a unique violation.
C4_Witness ==
    \E w, x \in Workers :
       /\ w # x
       /\ op_version[w] = op_version[x]
       /\ pc[w] = "raised" /\ exc[w] = "UniqueViolation"
       /\ pc[x] \in Running
       /\ \E a \in AnalysesOfVersion(analyses, op_version[x]) :
             a.id = analysis_id[x] /\ a.status \in {PENDING, RUNNING}

\* C5 as claimed: a version whose row is stuck in pending or running is re-selected
\* as pending work: analysis_exists_for_version is false for it and every result of
\* get_versions_pending_analysis holds it.
C5_StuckVersionIsReselected ==
    \A v \in VersionIds :
       Stuck(v) =>
         /\ ~AnalysisExistsForVersion(analyses, v)
         /\ \A list \in GetVersionsPendingAnalysis(versions, analyses) :
               \E i \in 1..Len(list) : list[i].id = v

\* C6 as claimed: a kill in mid-analysis is recoverable: a later execute for a version
\* whose row is stuck passes the guard and goes on to run the analysis on the existing
\* row; its create step does not end the run with an exception.
C6_StuckVersionIsRetried ==
    [][\A w \in Workers :
         (CreateCallBy(w) /\ Stuck(op_version[w])) => pc'[w] = "start"]_vars

\* C7: every analyses row is created in pending and its status only ever moves
\* pending -> running -> success or failed; a row in a terminal state keeps its
\* status under every later step, and no row disappears.
C7_StatusMovesForward ==
    [][/\ \A a \in analyses' :
            AnalysisById(analyses, a.id) = {} => a.status = PENDING
       /\ \A a \in analyses :
            /\ Cardinality(AnalysisById(analyses', a.id)) = 1
            /\ \A b \in AnalysisById(analyses', a.id) :
                  \/ b.status = a.status
                  \/ a.status = PENDING /\ b.status = RUNNING
                  \/ a.status = RUNNING /\ b.status \in {SUCCESS, FAILED}]_vars

\* C7 witness: a version's row reached a terminal state and a later execute on the same
\* version finished.
C7_Witness ==
    \E w, x \in Workers :
       /\ w # x
       /\ op_version[w] = op_version[x]
       /\ pc[x] \in {"returned", "raised"}
       /\ analysis_id[x] # NULL
       /\ \E a \in AnalysisById(analyses, analysis_id[x]) : a.status \in {SUCCESS, FAILED}
       /\ pc[w] \in {"returned", "raised"}
       /\ analysis_id[w] = NULL

\* C8 as claimed: when execute raises after its analyses row was created, the row is
\* in state failed with an error message and a finish time.
C8_RaiseLeavesRowFailed ==
    \A w \in Workers :
       (pc[w] = "raised" /\ analysis_id[w] # NULL) =>
          \A a \in AnalysisById(analyses, analysis_id[w]) :
             /\ a.status = FAILED
             /\ a.error_message # "None"
             /\ a.finished_at # NULL

\* The status of the row of a version, "absent" when it has none.
VersionStatus(v) ==
    IF AnalysesOfVersion(analyses, v) = {} THEN "absent"
    ELSE (CHOOSE a \in AnalysesOfVersion(analyses, v) : TRUE).status

C10_TerminalRowMakesExecuteNoOp ==
    [][\A w \in Workers :
         (/\ pc[w] = "guard"
          /\ pc'[w] \notin {"guard", "killed"}
          /\ VersionStatus(op_version[w]) \in {SUCCESS, FAILED}) =>
            /\ pc'[w] = "returned"
            /\ ret'[w] = "skipped"
            /\ analysis_id'[w] = NULL
            /\ storeVars' = storeVars
            /\ clone_started' = clone_started]_vars

\* C10 witness: an execute on a version with a terminal row returned "skipped".
C10_Witness ==
    \E w \in Workers :
       /\ pc[w] = "returned"
       /\ ret[w] = "skipped"
       /\ VersionStatus(op_version[w]) \in {SUCCESS, FAILED}
       /\ clone_started[op_version[w]] = 1

\* C11: when the project's language is UNKNOWN, execute reports "skipped" and returns
\* from its guard step: it creates no analyses row, leaves the analyses table as it
\* was and never reaches create_analysis, the workspace or the tool.
C11_UnknownLanguageIsSkipped ==
    /\ [](\A w \in Workers :
             (pc[w] \in Running /\ op_language[w] = UNKNOWN) => pc[w] = "guard")
    /\ [][\A w \in Workers :
            (/\ pc[w] = "guard"
             /\ pc'[w] \notin {"guard", "killed"}
             /\ op_language[w] = UNKNOWN) =>
               /\ pc'[w] = "returned"
               /\ ret'[w] \in {"skipped", "skipped: unknown language"}
               /\ analysis_id'[w] = NULL
               /\ analyses' = analyses
               /\ analysis_seq' = analysis_seq
               /\ clone_started' = clone_started]_vars

\* C11 witness: an execute with language UNKNOWN on a version without any row
\* returned skipped for the language.
C11_Witness ==
    \E w \in Workers :
       /\ pc[w] = "returned"
       /\ op_language[w] = UNKNOWN
       /\ ret[w] = "skipped: unknown language"
       /\ AnalysesOfVersion(analyses, op_version[w]) = {}

\* ------------------------------------------------------------- client claims
\* C12: when some token is not exhausted, _TokenPool.current returns in the same
\* step, without sleeping and without touching the pool or the clock, a token that is
\* not exhausted and whose remaining is the largest among the tokens not exhausted.
C12_CurrentPicksMostRemaining ==
    [][(get_pc = "current" /\ Available(pool, clock) # {}) =>
          /\ get_pc' = "selected"
          /\ clock' = clock
          /\ pool' = pool
          /\ waits' = waits
          /\ cur' \in Available(pool, clock)
          /\ \A j \in Available(pool, clock) : pool[j].remaining <= pool[cur'].remaining]_vars

\* C12 witness: of the tokens with remaining 10, 0 (exhausted, resets in 5 s) and 50,
\* the third was returned.
C12_Witness ==
    /\ get_pc = "selected"
    /\ Len(pool) = 3
    /\ pool[1].remaining = 10
    /\ pool[2].remaining = 0 /\ pool[2].reset_at = clock + 5
    /\ pool[3].remaining = 50
    /\ cur = 3
    /\ waits = 0

AllExhausted == Available(pool, clock) = {}

\* C13: when every token is exhausted, current picks a token with the smallest
\* reset_at and sleeps; it returns no earlier than that reset_at plus the 5 second
\* margin, returns that token with remaining 5000, not exhausted at that time, and
\* leaves every other token's state and that token's reset_at as they were.
C13_CurrentWaitsForSoonest ==
    /\ [][(get_pc = "current" /\ AllExhausted) =>
             /\ get_pc' = "sleep"
             /\ \A j \in 1..Len(pool) : pool[cur'].reset_at <= pool[j].reset_at
             /\ wake' >= pool[cur'].reset_at + ResetMargin
             /\ pool' = pool
             /\ clock' = clock]_vars
    /\ [][get_pc = "sleep" =>
             /\ get_pc' = "selected"
             /\ cur' = cur
             /\ clock' = wake
             /\ clock' >= pool[cur].reset_at + ResetMargin
             /\ pool'[cur].remaining = DefaultRemaining
             /\ ~IsExhausted(pool'[cur], clock')
             /\ pool'[cur].reset_at = pool[cur].reset_at
             /\ \A j \in 1..Len(pool) : j # cur => pool'[j] = pool[j]]_vars
    /\ [](get_pc = "selected" /\ waits > 0 => clock >= pool[cur].reset_at + ResetMargin)

\* C13 witness: three exhausted tokens, the soonest reset not the first of the pool;
\* current slept and returned it restored.
C13_Witness ==
    /\ get_pc = "selected"
    /\ waits = 1
    /\ Len(pool) = 3
    /\ cur = 2
    /\ pool[1].remaining = 0 /\ pool[1].reset_at = StartClock + 5
    /\ pool[2].remaining = DefaultRemaining /\ pool[2].reset_at = StartClock + 2
    /\ pool[3].remaining = 0 /\ pool[3].reset_at = StartClock + 5
    /\ clock = StartClock + 2 + ResetMargin

GetDone == get_pc \in {"returned", "raised"}

\* C14: a _get call over N tokens ends: it sends at most N+1 requests and sleeps at
\* most N+1 times, the RuntimeError is raised exactly when the N+1st request in a row
\* was answered 403 or 429, and every call that was started returns or raises.
C14_GetTerminates ==
    /\ [](attempt <= Len(pool) + 1 /\ waits <= Len(pool) + 1 /\ waits <= attempt + 1)
    /\ [](get_exc = "RuntimeError" =>
             /\ get_pc = "raised"
             /\ attempt = Len(pool) + 1
             /\ response.status \in QuotaStatuses)
    /\ []((attempt = Len(pool) + 1 /\ response.status \in QuotaStatuses) =>
             (get_pc = "raised" /\ get_exc = "RuntimeError"))
    /\ (get_pc = "current" ~> GetDone)

\* C14 witness: every one of the N+1 requests was answered with a quota status after
\* a sleep, and the call raised.
C14_Witness ==
    /\ get_pc = "raised"
    /\ get_exc = "RuntimeError"
    /\ attempt = NumTokens + 1
    /\ waits = NumTokens + 1

\* C15 as claimed: _get raises the RuntimeError for quota exhaustion only after every
\* token of the pool was used for a request of that call, whatever state earlier
\* calls left the pool in.
C15_EveryTokenTriedBeforeFailure ==
    get_exc = "RuntimeError" => tried = 1..Len(pool)

\* C16 as claimed: a 403 whose rate-limit header reports remaining > 0 (forbidden for
\* a reason other than quota) is raised to the caller at once, and the token's
\* remaining is not set to 0.
C16_ForbiddenIsPropagated ==
    [][(/\ get_pc = "received"
        /\ response.status = 403
        /\ response.headers.has_remaining
        /\ response.headers.remaining > 0) =>
          /\ get_pc' = "raised"
          /\ get_exc' = "HTTPError"
          /\ pool'[cur].remaining # 0]_vars

\* ---------------------------------------------------------- ingestion summary
\* C17: a failure of one project's metadata fetch, commit fetch or store write is
\* appended to errors and the loop goes on: at every point of a run processed +
\* len(errors) is the number of projects handled so far, new_versions + skipped =
\* processed, and when execute returns every active project it read was handled, as
\* a new version, as skipped or as an error named in errors.
C17_SummaryIsComplete ==
    \A r \in Runs :
       /\ summary[r].new_versions + summary[r].skipped = summary[r].processed
       /\ run_pc[r] \in {"meta", "commit"} =>
             summary[r].processed + Len(summary[r].errors) = run_idx[r] - 1
       /\ run_pc[r] = "done" =>
             /\ summary[r].processed + Len(summary[r].errors) = Len(run_projects[r])
             /\ \A i \in 1..Len(run_projects[r]) :
                   LET p == run_projects[r][i] IN
                   /\ run_seen[r][p.id].result \in {"new", "skipped", "error"}
                   /\ run_seen[r][p.id].result = "error" <=>
                         \E k \in 1..Len(summary[r].errors) :
                            summary[r].errors[k].project = p.full_name

\* C17 witness: a run returned after its first project failed in the store write and
\* its second project was recorded as a new version.
C17_Witness ==
    \E r \in Runs :
       /\ run_pc[r] = "done"
       /\ Len(run_projects[r]) = 2
       /\ Len(summary[r].errors) = 1
       /\ summary[r].errors[1].project = run_projects[r][1].full_name
       /\ summary[r].errors[1].error = "insert_version_if_new"
       /\ run_seen[r][run_projects[r][2].id].result = "new"
       /\ summary[r].processed = 1

\* --------------------------------------------------------------- store claims
ProjectsNamed(rows, name) == {r \in rows : r.full_name = name}

\* This step commits a write of function op.
Committed(op) == Len(log') = Len(log) + 1 /\ log'[Len(log')].op = op

\* C18: upsert_project on a stored full_name overwrites language and is_active with
\* the submitted values and keeps id, owner, repo_name and added_at; on a new
\* full_name it inserts one row with the submitted values and a fresh id; it returns
\* the id of the row of that full_name, every other row is untouched, and full_name
\* stays unique.
C18_UpsertProjectKeepsIdentity ==
    [][Committed("upsert_project") =>
         LET w == log'[Len(log')]
             name == FullName(w.name)
             before == ProjectsNamed(projects, name)
             after == ProjectsNamed(projects', name)
             returned == UpsertProject(projects, project_seq, ProjectOf(w)).id
         IN /\ Cardinality(after) = 1
            /\ \A r \in after : r.id = returned
            /\ \A r \in after : r.language = w.language /\ r.is_active = w.is_active
            /\ projects' \ after = projects \ before
            /\ \A q \in projects' : Cardinality(ProjectsNamed(projects', q.full_name)) = 1
            /\ before # {} =>
                 \A old \in before : \A r \in after :
                    /\ r.id = old.id
                    /\ r.owner = old.owner
                    /\ r.repo_name = old.repo_name
                    /\ r.added_at = old.added_at
            /\ before = {} =>
                 \A r \in after :
                    /\ \A q \in projects : q.id # r.id
                    /\ r.owner = Owner(w.name)
                    /\ r.repo_name = RepoName(w.name)
                    /\ r.added_at = w.t]_vars

\* C18 witness: a new full_name was inserted and then submitted again with another
\* language and is_active at a later time; the row kept its id and added_at and
\* carries the later language and is_active.
C18_Witness ==
    /\ Len(log) = 2
    /\ log[1].op = "upsert_project" /\ log[2].op = "upsert_project"
    /\ log[1].name = 3 /\ log[2].name = 3
    /\ log[1].language = UNKNOWN /\ log[2].language = JAVA
    /\ log[1].is_active /\ ~log[2].is_active
    /\ \E r \in ProjectsNamed(projects, FullName(3)) :
          /\ r.id = Cardinality(ProjectIds) + 1
          /\ r.added_at = log[1].t
          /\ r.added_at # log[2].t
          /\ r.language = JAVA
          /\ ~r.is_active

RECURSIVE Replay(_, _)
\* The store after the writes of ws committed in that order on store S.
Replay(S, ws) == IF ws = << >> THEN S ELSE Replay(Apply(S, Head(ws)), Tail(ws))

\* The log with its last two writes committed in the other order, and the store the
\* last two writes were issued on.
SwappedLog == SubSeq(log, 1, Len(log) - 2) \o <<log[Len(log)], log[Len(log) - 1]>>
StoreBeforePair == Replay(InitialStore, SubSeq(log, 1, Len(log) - 2))

\* The rows write w refers to exist in store S, so w can be issued on S.
Issuable(S, w) ==
    CASE w.op \in {"insert_version_if_new", "upsert_quality_gate"} ->
           \E q \in S.projects : q.id = w.project_id
      [] w.op = "create_analysis" -> \E v \in S.versions : v.id = w.id
      [] w.op \in {"update_analysis_started", "update_analysis_success",
                   "update_analysis_failed"} -> \E a \in S.analyses : a.id = w.id
      [] OTHER -> TRUE

\* The last two writes of the log were issued by two processes on the same store:
\* neither refers to a row the other one made.
ConcurrentPair ==
    /\ Len(log) >= 2
    /\ Issuable(StoreBeforePair, log[Len(log)])
    /\ Issuable(StoreBeforePair, log[Len(log) - 1])

\* The contents of a store: its rows without the ids the store generated for them,
\* and without the sequences.
Contents(S) ==
    [projects |-> {[r EXCEPT !.id = NULL] : r \in S.projects},
     versions |-> {[r EXCEPT !.id = NULL] : r \in S.versions},
     analyses |-> {[r EXCEPT !.id = NULL] : r \in S.analyses},
     quality_gates |-> {[r EXCEPT !.id = NULL] : r \in S.quality_gates}]

\* C19 as claimed: every write is commutative: the contents of the store after two
\* concurrent writes are the same whichever of the two commits first.
C19_WritesCommute ==
    ConcurrentPair => Contents(Replay(InitialStore, SwappedLog)) = Contents(Store)

\* C20: no write of the pipeline (upsert_project, insert_version_if_new, the analysis
\* transitions, upsert_quality_gate) changes or removes a versions row: every row of
\* versions is in versions after the step, field for field.
C20_VersionsAreImmutable ==
    [][\A v \in versions : v \in versions']_vars

\* C20 witness: a stored (project, commit) was submitted again with a later discovery
\* time, a project was upserted and a third write committed; the first versions are
\* all there.
C20_Witness ==
    /\ Len(log) = MaxWrites
    /\ \E i, j \in 1..Len(log) :
          /\ log[i].op = "insert_version_if_new"
          /\ log[i].project_id = 1
          /\ log[i].sha = "abc123"
          /\ log[i].t > 1
          /\ log[j].op = "upsert_project"
          /\ log[j].name = 1
    /\ SeedVersions \subseteq versions

\* -------------------------------------------------------------- queue claims
Queued == \E w \in Workers : pc[w] = "queued"

\* C21: the list get_versions_pending_analysis returns holds exactly the versions
\* that no analyses row, in any status, points at, each of them once, and a version
\* discovered earlier comes before one discovered later.
C21_PendingQueueIsExactAndOrdered ==
    Queued =>
       /\ \A v \in versions :
             Cardinality({i \in 1..Len(queue) : queue[i] = v}) =
                IF \E a \in analyses : a.version_id = v.id THEN 0 ELSE 1
       /\ \A i \in 1..Len(queue) : queue[i] \in versions
       /\ \A i, j \in 1..Len(queue) :
             queue[i].discovered_at < queue[j].discovered_at => i < j

\* C21 witness: version 2 has a row (pending, not terminal) and is left out; version 3
\* was discovered before version 1 and comes first.
C21_Witness ==
    /\ Queued
    /\ \E a \in analyses : a.version_id = 2 /\ a.status = PENDING
    /\ Len(queue) = 2
    /\ queue[1].id = 3 /\ queue[2].id = 1
    /\ queue[1].discovered_at < queue[2].discovered_at

\* ------------------------------------------------------- quality gate claims
\* The dimensions of a stored row that are above 0; a NULL column is not.
Positive(g) == {k \in Dimensions : k \in DOMAIN g.dimensions /\ g.dimensions[k] > 0}

GateRows(rows, project_id) == {g \in rows : g.project_id = project_id}

C23_FiveOfNinePasses ==
    \A g \in quality_gates :
       Cardinality(Positive(g)) = 5 =>
          /\ g.passed
          /\ ProjectPassedQualityGate(quality_gates, g.project_id) = "True"

\* C25: quality_gates holds at most one row per project, and the row an
\* upsert_quality_gate leaves carries the latest submission alone: each of the nine
\* dimensions is the submitted value, or NULL when the submission lacks it, run_at is
\* the time of this call, score and passed are those of this submission, the row keeps
\* its place (no second row), and the rows of other projects are untouched.
C25_GateRowIsReplacedWhole ==
    /\ [](\A g, h \in quality_gates : g.project_id = h.project_id => g = h)
    /\ [][Committed("upsert_quality_gate") =>
            LET w == log'[Len(log')]
                before == GateRows(quality_gates, w.project_id)
                after == GateRows(quality_gates', w.project_id)
            IN /\ Cardinality(after) = 1
               /\ quality_gates' \ after = quality_gates \ before
               /\ \A g \in after :
                     /\ \A k \in Dimensions :
                           IF k \in DOMAIN w.metrics
                           THEN k \in DOMAIN g.dimensions /\ g.dimensions[k] = w.metrics[k]
                           ELSE k \notin DOMAIN g.dimensions
                     /\ g.run_at = w.t
                     /\ g.score = Cardinality({k \in Dimensions :
                                                 k \in DOMAIN w.metrics /\ w.metrics[k] > 0})
                     /\ g.passed = (g.score > 5)]_vars

\* C25 witness: a project was saved with nine dimensions (six above 0) and then again
\* with five dimensions only; its one row has the five, score 5, not passed, and the
\* time of the second call.
C25_Witness ==
    /\ Len(log) = 2
    /\ log[1].op = "upsert_quality_gate" /\ log[2].op = "upsert_quality_gate"
    /\ log[1].project_id = log[2].project_id
    /\ log[1].metrics = SixOfNine /\ log[2].metrics = FiveOnly
    /\ Cardinality(quality_gates) = 1
    /\ \E g \in quality_gates :
          /\ DOMAIN g.dimensions = DOMAIN FiveOnly
          /\ g.score = 5 /\ ~g.passed
          /\ g.run_at = log[2].t /\ g.run_at # log[1].t

\* C26: no write of the pipeline removes a projects row or changes its id or its
\* full_name, full_name is unique among projects, and get_active_projects returns
\* every row whose is_active is true: a project leaves processing only by that flag.
C26_ProjectsAreNeverDeleted ==
    /\ [][\A r \in projects :
             \E q \in projects' : q.id = r.id /\ q.full_name = r.full_name]_vars
    /\ [](\A r, q \in projects : r.full_name = q.full_name \/ r.id = q.id => r = q)
    /\ [](\A r \in projects :
             r.is_active <=> \E i \in 1..Len(GetActiveProjects(projects)) :
                                GetActiveProjects(projects)[i] = r)

\* C26 witness: a third project was seeded, then submitted again deactivated; the three
\* rows are there with their ids and the third is no longer among the active ones.
C26_Witness ==
    /\ Len(log) >= 2
    /\ log[1].op = "upsert_project" /\ log[1].name = 3 /\ log[1].is_active
    /\ log[2].op = "upsert_project" /\ log[2].name = 3 /\ ~log[2].is_active
    /\ Cardinality(projects) = 3
    /\ \E r \in projects : r.id = 3 /\ r.full_name = FullName(3) /\ ~r.is_active
    /\ \A i \in 1..Len(GetActiveProjects(projects)) :
          GetActiveProjects(projects)[i].full_name # FullName(3)

\* C24 as claimed: every analyses row belongs to a project whose quality_gates row has
\* passed = true, and the analysis tool runs only for versions of such projects.
C24_OnlyPassedProjectsAreAnalysed ==
    /\ \A a \in analyses :
          ProjectPassedQualityGate(quality_gates, a.project_id) = "True"
    /\ \A w \in Workers :
          pc[w] \in {"analyse", "persist"} =>
             ProjectPassedQualityGate(quality_gates,
                                      VersionById(op_version[w]).project_id) = "True"

\* ------------------------------------------------- client construction claims
\* Neither GITHUB_TOKENS nor GITHUB_TOKEN holds a token.
NoCredentials ==
    /\ config.GITHUB_TOKEN = ""
    /\ \A i \in 1..Len(config.GITHUB_TOKENS) : config.GITHUB_TOKENS[i] = ""

\* Exactly one token is configured.
OneCredential == ~NoCredentials /\ Len(ResolveTokens(config)) = 1

\* C27: with no credential configured the constructor succeeds and builds a pool of
\* one token, the empty one, with the default state; from then on that client, like a
\* client with one configured credential, sends its requests with the one token,
\* updates that token's remaining and reset_at from each response, sends at most two
\* requests per call and raises the RuntimeError only after the second 403 / 429.
C27_AnonymousModeWorks ==
    /\ [][get_pc = "new" /\ NoCredentials =>
             /\ get_pc' = "idle"
             /\ get_exc' = "none"
             /\ pool' = <<[token |-> "", remaining |-> DefaultRemaining,
                           reset_at |-> DefaultResetAt]>>]_vars
    /\ [](NoCredentials /\ get_pc # "new" => Len(pool) = 1 /\ pool[1].token = "")
    /\ [][(NoCredentials \/ OneCredential) /\ get_pc = "selected" =>
             /\ get_pc' = "received"
             /\ cur = 1
             /\ pool'[1].remaining = IF response'.headers.has_remaining
                                     THEN response'.headers.remaining
                                     ELSE pool[1].remaining
             /\ pool'[1].reset_at = IF response'.headers.has_reset
                                    THEN response'.headers.reset_at
                                    ELSE pool[1].reset_at]_vars
    /\ []((NoCredentials \/ OneCredential) =>
             /\ attempt <= 2
             /\ get_exc \in {"none", "HTTPError", "RuntimeError"}
             /\ get_exc = "RuntimeError" =>
                   attempt = 2 /\ response.status \in {403, 429})

\* C27 witness: the anonymous client was answered 429 with a reset time ahead, slept,
\* sent the request again with the empty token and returned its body, the token's
\* remaining being the one of the last response.
C27_Witness ==
    /\ NoCredentials
    /\ get_pc = "returned"
    /\ attempt = 2
    /\ waits = 1
    /\ pool[1].token = ""
    /\ response.headers.has_remaining
    /\ pool[1].remaining = response.headers.remaining

\* ---------------------------------------------------- response handling claims
\* C28: the step that receives a response, whatever its status, sets the remaining
\* and the reset_at of the token the request was sent with to the values of the
\* X-RateLimit-Remaining and X-RateLimit-Reset headers, each kept as it was when its
\* header is missing; it changes no other token and decides nothing yet: the status
\* is examined in the step after, on the pool so updated.
C28_PoolTracksEveryResponse ==
    [][get_pc = "selected" =>
          LET h == response'.headers IN
          /\ get_pc' = "received"
          /\ response'.status \in Statuses
          /\ pool'[cur].token = pool[cur].token
          /\ pool'[cur].remaining = IF h.has_remaining THEN h.remaining
                                    ELSE pool[cur].remaining
          /\ pool'[cur].reset_at = IF h.has_reset THEN h.reset_at ELSE pool[cur].reset_at
          /\ \A j \in 1..Len(pool) : j # cur => pool'[j] = pool[j]
          /\ Len(pool') = Len(pool)
          /\ cur' = cur
          /\ get_exc' = get_exc
          /\ attempt' = attempt]_vars

\* C28 witness: a 200 carrying only X-RateLimit-Remaining was received for the second
\* token: its remaining is the header's, its reset_at (a time set by an earlier call)
\* and the first token are as they were.
C28_Witness ==
    /\ get_pc = "received"
    /\ response.status = 200
    /\ response.headers.has_remaining /\ ~response.headers.has_reset
    /\ cur = 2
    /\ pool[2].remaining = response.headers.remaining
    /\ pool[2].reset_at = StartClock + 30
    /\ pool[1].remaining = 50
    /\ attempt = 0

\* C29: when the response examined is a 403 or a 429, the token used gets remaining 0
\* whatever X-RateLimit-Remaining said, keeps the reset_at read from that response, no
\* other token changes, and the call either raises the RuntimeError (last attempt) or
\* asks the pool again: the token of the next request is the one _TokenPool.current
\* selects on the pool as it is then, not the previous token carried over.
C29_QuotaStatusZeroesAndReselects ==
    /\ [][get_pc = "received" /\ response.status \in {403, 429} =>
             /\ pool'[cur].remaining = 0
             /\ pool'[cur].reset_at = pool[cur].reset_at
             /\ response.headers.has_reset => pool'[cur].reset_at = response.headers.reset_at
             /\ \A j \in 1..Len(pool) : j # cur => pool'[j] = pool[j]
             /\ get_pc' \in {"current", "raised"}
             /\ get_pc' = "raised" <=> attempt' = Len(pool) + 1]_vars
    /\ [][get_pc = "current" =>
             LET avail == {i \in 1..Len(pool) :
                             ~(pool[i].remaining = 0 /\ clock < pool[i].reset_at)}
             IN IF avail # {}
                THEN /\ cur' \in avail
                     /\ \A j \in avail : pool[j].remaining <= pool[cur'].remaining
                ELSE \A j \in 1..Len(pool) : pool[cur'].reset_at <= pool[j].reset_at]_vars

\* C29 witness: the first token was answered 403 with X-RateLimit-Remaining 10; it was
\* set to 0 with the reset time of the response, and the second token was selected for
\* the next request.
C29_Witness ==
    /\ get_pc = "selected"
    /\ attempt = 1
    /\ tried = {1}
    /\ response.status = 403
    /\ response.headers.has_remaining /\ response.headers.remaining = 10
    /\ response.headers.has_reset
    /\ pool[1].remaining = 0
    /\ pool[1].reset_at = response.headers.reset_at
    /\ cur = 2

\* C30: when the response examined has an error status other than 403 and 429, the
\* call raises the HTTPError in that step: the pool stays as the headers of that
\* response left it, no token is rotated and nothing is slept: the request that got
\* this response is the last one of the call.
C30_OtherErrorsRaiseAtOnce ==
    /\ [][get_pc = "received" /\ response.status \notin 200..299
                              /\ response.status \notin {403, 429} =>
             /\ get_pc' = "raised"
             /\ get_exc' = "HTTPError"
             /\ pool' = pool
             /\ cur' = cur
             /\ tried' = tried
             /\ waits' = waits
             /\ clock' = clock]_vars
    /\ [](get_exc = "HTTPError" =>
             /\ get_pc = "raised"
             /\ response.status \notin {403, 429}
             /\ response.headers.has_remaining =>
                   pool[cur].remaining = response.headers.remaining
             /\ response.headers.has_reset =>
                   pool[cur].reset_at = response.headers.reset_at)

\* C30 witness: the first request of a call was answered 404 with both headers; the
\* call raised after that one request, without a sleep, the token tracked from the
\* headers.
C30_Witness ==
    /\ get_pc = "raised"
    /\ get_exc = "HTTPError"
    /\ response.status = 404
    /\ attempt = 1
    /\ waits = 0
    /\ Cardinality(tried) = 1
    /\ response.headers.has_remaining /\ response.headers.has_reset
    /\ pool[cur].remaining = response.headers.remaining
    /\ pool[cur].reset_at = response.headers.reset_at

\* ------------------------------------------------------------ one project
\* The error entries a run recorded for a project.
ErrorsOf(r, name) ==
    {i \in 1..Len(summary[r].errors) : summary[r].errors[i].project = name}

\* C31: a run reaches the commit fetch of a project only from the metadata fetch of
\* that project having returned; the commit fetch is issued on the default_branch of
\* that metadata; and when the metadata fetch raises, the run goes to the next project
\* with no commit fetch issued and projects and versions as they were.
C31_MetadataBeforeCommit ==
    /\ [][\A r \in Runs :
             run_pc'[r] = "commit" /\ run_pc[r] # "commit" =>
                /\ run_pc[r] = "meta"
                /\ run_idx'[r] = run_idx[r]
                /\ run_meta'[r] \in MetaResponses]_vars
    /\ [][\A r \in Runs :
             run_pc[r] = "commit" /\ run_pc'[r] # "commit" =>
                /\ run_meta[r] \in MetaResponses
                /\ run_seen'[r][CurrentProject(r).id].commit_branch =
                      run_meta[r].default_branch]_vars
    /\ [][\A r \in Runs :
             run_pc[r] = "meta" /\ summary'[r].errors # summary[r].errors =>
                /\ run_pc'[r] # "commit"
                /\ run_idx'[r] = run_idx[r] + 1
                /\ run_seen'[r][CurrentProject(r).id].commit_branch = "None"
                /\ run_seen'[r][CurrentProject(r).id].sha = NoCommit
                /\ projects' = projects
                /\ versions' = versions]_vars

\* C31 witness: in one run the metadata fetch of the first project failed (no commit
\* fetch, nothing stored for it) and the second project, whose metadata named the
\* branch dev, had its commit fetched on dev and stored.
C31_Witness ==
    /\ run_pc["runA"] = "done"
    /\ ErrorsOf("runA", FullName(1)) # {}
    /\ run_seen["runA"][1].commit_branch = "None"
    /\ \A v \in versions : v.project_id # 1
    /\ \E q \in projects : q.id = 1 /\ q.language = UNKNOWN
    /\ run_seen["runA"][2].commit_branch = "dev"
    /\ run_seen["runA"][2].result = "new"
    /\ \E v \in versions : v.project_id = 2 /\ v.default_branch = "dev"

\* --------------------------------------------------------- analysis lifecycle
\* C32: in every reachable state each analyses row's fields agree with its status:
\* pending has no start time, finish time, error or results; running has a start time
\* and no finish time; success has start time, finish time and results and no error
\* message; failed has start time, finish time and an error message and no results.
C32_FieldsAgreeWithStatus ==
    \A a \in analyses :
       /\ a.status \in {PENDING, RUNNING, SUCCESS, FAILED}
       /\ a.status = PENDING =>
             /\ a.started_at = NULL /\ a.finished_at = NULL
             /\ a.error_message = "None" /\ a.results_json = "None"
       /\ a.status = RUNNING =>
             a.started_at # NULL /\ a.finished_at = NULL
       /\ a.status = SUCCESS =>
             /\ a.started_at # NULL /\ a.finished_at # NULL
             /\ a.results_json # "None" /\ a.error_message = "None"
       /\ a.status = FAILED =>
             /\ a.started_at # NULL /\ a.finished_at # NULL
             /\ a.error_message # "None" /\ a.results_json = "None"

\* C32 witness: one execute has failed inside the try block and another has stored its
\* results, so a failed row and a success row stand side by side.
C32_Witness ==
    /\ \E a \in analyses : a.status = FAILED /\ a.error_message = "RuntimeError: git"
    /\ \E a \in analyses : a.status = SUCCESS /\ a.results_json \in Payloads
    /\ \E w \in Workers : pc[w] = "raised" /\ exc[w] = "RuntimeError: git"
    /\ \E w \in Workers : pc[w] = "returned" /\ ret[w] = "success"

\* ------------------------------------------------------- language and version
\* The language the projects table holds for a project id.
LanguageOf(rows, id) == (CHOOSE q \in rows : q.id = id).language

\* The language a reported name stands for: Java and Python in any case, anything
\* else or nothing is unknown.
ReportedLanguage(name) ==
    IF name \in {"Java", "java", "JAVA"} THEN JAVA
    ELSE IF name \in {"Python", "python", "PYTHON"} THEN PYTHON
    ELSE UNKNOWN

\* The step of run r in which get_repo_metadata returned / in which the project ended.
MetadataReturned(r) == run_pc[r] = "meta" /\ run_pc'[r] = "commit"
ProjectEnded(r) == run_pc[r] = "commit" /\ run_pc'[r] # "commit"

\* upsert_project is issued only when the mapped language differs from the language the
\* run read at its start; the rest of _process_project leaves the projects table alone,
\* also when the commit fetch fails; and on a project without versions a stored commit
\* is exactly one new row with the fetched head commit and the metadata's branch.
UpsertOnlyOnChange ==
    /\ [][\A r \in Runs : MetadataReturned(r) =>
             IF ReportedLanguage(run_meta'[r].language) # CurrentProject(r).language
             THEN project_seq' = project_seq + 1
             ELSE projects' = projects /\ project_seq' = project_seq]_vars
    /\ [][\A r \in Runs : ProjectEnded(r) => projects' = projects]_vars
    /\ [][\A r \in Runs :
             LET p == CurrentProject(r).id
                 seen == run_seen'[r][p] IN
             /\ ProjectEnded(r)
             /\ seen.result # "error"
             /\ \A v \in versions : v.project_id # p
             => /\ seen.result = "new"
                /\ \E v \in versions' :
                      /\ versions' = versions \cup {v}
                      /\ v \notin versions
                      /\ v.project_id = p
                      /\ v.commit_sha = seen.sha
                      /\ v.default_branch = run_meta[r].default_branch]_vars

AlwaysQueued(vrows, arows) ==
    {id \in VersionIds :
        \A list \in GetVersionsPendingAnalysis(vrows, arows) :
           \E i \in 1..Len(list) : list[i].id = id}

\* The guard step of an execute constructed with language unknown.
UnknownGuardStep(w) ==
    pc[w] = "guard" /\ op_language[w] = UNKNOWN /\ pc'[w] \notin {"guard", "killed"}

\* C34: a version handed to execute with language unknown never leaves the work queue:
\* each such execute returns at the guard with the analyses table as it was, a version
\* that was queued before is in every result of get_versions_pending_analysis after
\* (so the queue is not empty), and a version leaves the queue only by the
\* create_analysis of an execute constructed with a known language.
C34_UnknownLanguageStaysQueued ==
    /\ [][\A w \in Workers : UnknownGuardStep(w) =>
             /\ pc'[w] = "returned"
             /\ analyses' = analyses
             /\ (op_version[w] \in AlwaysQueued(versions, analyses) =>
                    /\ op_version[w] \in AlwaysQueued(versions', analyses')
                    /\ << >> \notin GetVersionsPendingAnalysis(versions', analyses'))]_vars
    /\ [][\A v \in VersionIds :
             v \in AlwaysQueued(versions, analyses)
             /\ v \notin AlwaysQueued(versions', analyses')
             => \E w \in Workers :
                   /\ pc[w] = "create" /\ pc'[w] = "start"
                   /\ op_version[w] = v
                   /\ op_language[w] \in {JAVA, PYTHON}]_vars

\* C34 witness: both executes the bound allows ran on the version of the project whose
\* language is unknown, both returned the skip, and the version is still queued.
C34_Witness ==
    /\ executes = MaxExecutes
    /\ LanguageOf(projects, VersionById(2).project_id) = UNKNOWN
    /\ \A w \in Workers :
          /\ pc[w] = "returned"
          /\ ret[w] = "skipped: unknown language"
          /\ op_version[w] = 2
    /\ AnalysesOfVersion(analyses, 2) = {}
    /\ 2 \in AlwaysQueued(versions, analyses)

\* C35: no reachable state holds an analyses row of status skipped; the statuses
\* stored are pending, running, success and failed.
C35_NoSkippedRow ==
    /\ \A a \in analyses : a.status # SKIPPED
    /\ {a.status : a \in analyses} \subseteq {PENDING, RUNNING, SUCCESS, FAILED}

\* C35 witness: an execute returned the skip for an unknown language and another
\* execute left a row, and no row is skipped.
C35_Witness ==
    /\ \E w \in Workers : pc[w] = "returned" /\ ret[w] = "skipped: unknown language"
    /\ \E w \in Workers : pc[w] = "raised" /\ exc[w] = "RuntimeError: designite"
    /\ \E a \in analyses : a.status = FAILED
    /\ \A a \in analyses : a.status # SKIPPED

\* ------------------------------------------------------------ the create race
\* Worker w lost the create_analysis race of its current execute.
LostRace(w) == pc[w] = "raised" /\ exc[w] = "UniqueViolation"

\* C36: the execute that loses the create_analysis race raises the conflict and writes
\* nothing: the refused call leaves the analyses table as it was, the process holds no
\* analysis id and takes no further step of that execute (it never reaches the except
\* clause), and every change of an analyses row is made by the process that created it.
C36_LoserWritesNothing ==
    /\ [](\A w \in Workers : LostRace(w) => analysis_id[w] = NULL)
    /\ [][\A w \in Workers :
             (CreateCallBy(w) /\ pc'[w] = "raised") =>
                /\ exc'[w] = "UniqueViolation"
                /\ analysis_id'[w] = NULL
                /\ analyses' = analyses]_vars
    /\ [][\A w \in Workers :
             (LostRace(w) /\ pc'[w] # pc[w]) =>
                /\ pc'[w] = "guard"
                /\ analyses' = analyses]_vars
    /\ [][\A a \in analyses :
             a \notin analyses' =>
                \E w \in Workers :
                   /\ pc[w] \in {"start", "persist", "except"}
                   /\ pc'[w] \notin {pc[w], "killed"}
                   /\ analysis_id[w] = a.id
                   /\ op_version[w] = a.version_id
                   /\ \A x \in Workers \ {w} : analysis_id[x] # a.id]_vars

\* C36 witness: two processes ran execute for one version; the loser raised the
\* unique violation and the winner's row has gone on to success with its results.
C36_Witness ==
    \E w, x \in Workers :
       /\ w # x
       /\ op_version[w] = op_version[x]
       /\ LostRace(w)
       /\ pc[x] = "returned" /\ ret[x] = "success"
       /\ \E a \in AnalysesOfVersion(analyses, op_version[x]) :
             /\ a.id = analysis_id[x]
             /\ a.status = SUCCESS
             /\ a.error_message = "None"
             /\ a.results_json = results[x]

\* ------------------------------------------------------------------ is_active
\* The is_active flag the projects table holds for a project id.
IsActive(rows, id) == (CHOOSE q \in rows : q.id = id).is_active

\* C37 as claimed: no step of an ingestion run changes the is_active flag of a
\* project, so a project deactivated after the run read its list of active projects
\* is still deactivated when the run finishes.
C37_IngestionKeepsIsActive ==
    [][\A r \in Runs :
          run_pc'[r] # run_pc[r] \/ run_idx'[r] # run_idx[r] =>
             \A p \in ProjectIds : IsActive(projects', p) = IsActive(projects, p)]_vars

\* ----------------------------------------------------------------- re-seeding
\* The tracked projects named by the entries of a script run.
Reseeded(entries) ==
    {q \in projects : \E i \in 1..Len(entries) : entries[i] = q.full_name}

\* C38 as claimed: a run of cmd_reseed, seed_from_file or add_single_project over
\* projects that are already tracked leaves versions, analyses and quality_gates
\* unchanged and keeps each project's id and added_at, and leaves its stored language
\* unknown and its is_active true, whatever they were.
C38_ReseedOverwritesLanguageAndIsActive ==
    [][script.pc = "idle" /\ script'.pc # "idle" =>
          /\ versions' = versions
          /\ analyses' = analyses
          /\ quality_gates' = quality_gates
          /\ \A q \in Reseeded(script'.entries) :
                \E n \in projects' :
                   /\ n.full_name = q.full_name
                   /\ n.id = q.id
                   /\ n.added_at = q.added_at
                   /\ n.language = UNKNOWN
                   /\ n.is_active]_vars

\* ------------------------------------------------- RepoQuesterOperator.execute
\* get_projects_without_quality_gate: the active projects without a quality_gates row,
\* ORDER BY full_name, as dicts of id and full_name.
GetProjectsWithoutQualityGate(prows, grows) ==
    LET rows == SortedByName({q \in prows :
                                 q.is_active /\ \A g \in grows : g.project_id # q.id})
    IN [i \in 1..Len(rows) |-> [id |-> rows[i].id, full_name |-> rows[i].full_name]]

\* _resolve_token: the first non-blank piece of GITHUB_TOKENS, else GITHUB_TOKEN, else
\* RuntimeError ("" stands for the exception).
ResolveToken(cfg) ==
    LET tokens == SelectSeq(cfg.GITHUB_TOKENS, NonBlank) IN
    IF tokens # << >> THEN tokens[1] ELSE cfg.GITHUB_TOKEN

\* The metrics dicts _read_results builds from a repoquester_results row.
GateMetrics == {SixOfNine, FiveOnly, FourOfNine}

\* What the tool run may leave in repo_quester.db for a pending list: results for some
\* of the pending projects and, possibly, for a repository that is not pending.
GateResults(pending) ==
    LET names == {pending[i].full_name : i \in 1..Len(pending)} \cup {FullName(3)}
    IN UNION {[chosen -> GateMetrics] : chosen \in SUBSET names}

\* results.items(): the entries of the dict, in the order of the rows read.
ItemsOf(res) ==
    LET n == Cardinality(DOMAIN res)
        order == CHOOSE list \in [1..n -> DOMAIN res] :
                    \A i, j \in 1..n : i < j => NameRank(list[i]) < NameRank(list[j])
    IN [i \in 1..n |-> [full_name |-> order[i], metrics |-> res[order[i]]]]

\* The failures of the tool run: copytree, the two scripts, the missing result database.
ToolFailures ==
    {"OSError: copytree", "RuntimeError: initialize.sh", "RuntimeError: run.sh",
     "FileNotFoundError: repo_quester.db"}

\* full_name_to_id.get(full_name): the pending ids of that name (none: the empty set)
PendingIds(pending, full_name) ==
    {pending[i].id : i \in {k \in 1..Len(pending) : pending[k].full_name = full_name}}

\* The pass test of the summary, line 133: score >= 5
SummaryPassMark == 5
SummaryPassed(metrics) == Score(metrics) >= SummaryPassMark

\* execute lines 91-95: the pending projects are read; with none the zero summary is
\* returned.
RqStart ==
    /\ rq.pc = "idle"
    /\ LET pending == GetProjectsWithoutQualityGate(projects, quality_gates) IN
       rq' = [RqIdle EXCEPT !.pending = pending,
                            !.pc = IF pending = << >> THEN "returned" ELSE "token"]
    /\ UNCHANGED <<log, queue, config, script, clientVars, storeVars, now, runVars, opVars>>

\* execute line 102: _resolve_token returns a token or raises RuntimeError.
RqResolveToken ==
    /\ rq.pc = "token"
    /\ rq' = IF ResolveToken(config) = ""
             THEN [rq EXCEPT !.pc = "raised", !.exc = "RuntimeError: no token"]
             ELSE [rq EXCEPT !.pc = "tool"]
    /\ UNCHANGED <<log, queue, config, script, clientVars, storeVars, now, runVars, opVars>>

\* execute lines 107-123: the tool runs in a temporary copy; any failure leaves execute,
\* otherwise the results are read and the summary starts with total = len(pending).
RqRunTool ==
    /\ rq.pc = "tool"
    /\ \/ \E e \in ToolFailures : rq' = [rq EXCEPT !.pc = "raised", !.exc = e]
       \/ \E res \in GateResults(rq.pending) :
             rq' = [rq EXCEPT !.todo = ItemsOf(res),
                              !.summary = [NoGateSummary EXCEPT !.total = Len(rq.pending)],
                              !.pc = IF ItemsOf(res) = << >> THEN "returned" ELSE "import"]
    /\ UNCHANGED <<log, queue, config, script, clientVars, storeVars, now, runVars, opVars>>

\* The loop goes to the next entry of results, or execute returns the summary.
RqAfter(next) ==
    [next EXCEPT !.todo = Tail(rq.todo),
                 !.pc = IF Tail(rq.todo) = << >> THEN "returned" ELSE "import"]

\* an import loop that re-raises a failure of upsert_quality_gate
RqImportStopOnError ==
    /\ rq.pc = "import"
    /\ LET item == Head(rq.todo)
           ids == PendingIds(rq.pending, item.full_name) IN
       IF ids = {}
       THEN /\ rq' = RqAfter([rq EXCEPT !.ignored = @ \cup {item.full_name}])
            /\ UNCHANGED <<quality_gates, gate_seq, now>>
       ELSE LET project_id == CHOOSE id \in ids : TRUE IN
            \/ \E t \in now..MaxTime :
                  LET up == UpsertQualityGate(quality_gates, gate_seq, project_id,
                                              item.metrics, t) IN
                  /\ now' = t
                  /\ quality_gates' = up.rows
                  /\ gate_seq' = up.seq
                  /\ rq' = RqAfter([rq EXCEPT
                               !.written = @ \cup {project_id},
                               !.summary.passed =
                                   IF SummaryPassed(item.metrics) THEN @ + 1 ELSE @,
                               !.summary.failed =
                                   IF SummaryPassed(item.metrics) THEN @ ELSE @ + 1])
            \/ /\ rq' = [rq EXCEPT !.pc = "raised", !.exc = "OperationalError"]
               /\ UNCHANGED <<quality_gates, gate_seq, now>>
    /\ UNCHANGED <<log, queue, config, script, clientVars, projects, versions, analyses,
                   project_seq, version_seq, analysis_seq, runVars, opVars>>

\* execute lines 125-141, one iteration: a result for a name that is not pending is
\* skipped with a warning; otherwise upsert_quality_gate runs and the summary counts the
\* project as passed or failed by its own score, or, when the write raises (it is
\* rolled back), as an error.
RqImport ==
    /\ rq.pc = "import"
    /\ LET item == Head(rq.todo)
           ids == PendingIds(rq.pending, item.full_name) IN
       IF ids = {}
       THEN /\ rq' = RqAfter([rq EXCEPT !.ignored = @ \cup {item.full_name}])
            /\ UNCHANGED <<quality_gates, gate_seq, now>>
       ELSE LET project_id == CHOOSE id \in ids : TRUE IN
            \/ \E t \in now..MaxTime :
                  LET up == UpsertQualityGate(quality_gates, gate_seq, project_id,
                                              item.metrics, t) IN
                  /\ now' = t
                  /\ quality_gates' = up.rows
                  /\ gate_seq' = up.seq
                  /\ rq' = RqAfter([rq EXCEPT
                               !.written = @ \cup {project_id},
                               !.summary.passed =
                                   IF SummaryPassed(item.metrics) THEN @ + 1 ELSE @,
                               !.summary.failed =
                                   IF SummaryPassed(item.metrics) THEN @ ELSE @ + 1])
            \/ /\ rq' = RqAfter([rq EXCEPT !.summary.errors = @ + 1])
               /\ UNCHANGED <<quality_gates, gate_seq, now>>
    /\ UNCHANGED <<log, queue, config, script, clientVars, projects, versions, analyses,
                   project_seq, version_seq, analysis_seq, runVars, opVars>>

\* The projects table with the second project deactivated.
OneActive == {[q EXCEPT !.is_active = (q.id = 1)] : q \in SeedProjects}

\* The store as the quality gate DAG finds it: both projects active or the second
\* deactivated, none or the first of them evaluated; the settings hold some or no token.
GateInit ==
    /\ quality_gates \in {{}, EvaluatedGates}
    /\ gate_seq = Cardinality(quality_gates) + 1
    /\ log = << >>
    /\ projects \in {SeedProjects, OneActive}
    /\ versions = SeedVersions
    /\ analyses = {}
    /\ project_seq = Cardinality(ProjectIds) + 1
    /\ version_seq = Cardinality(VersionIds) + 1
    /\ analysis_seq = 1
    /\ now = 1
    /\ RunInit /\ OpInit
    /\ config \in Configs
    /\ clock = 0
    /\ pool = << >>
    /\ get_pc = "idle"
    /\ attempt = 0
    /\ cur = 0
    /\ wake = 0
    /\ tried = {}
    /\ waits = 0
    /\ response = NoResponse
    /\ get_exc = "none"

GateNext ==
    \/ RqStart
    \/ RqResolveToken
    \/ RqRunTool
    \/ RqImport

SpecGate == GateInit /\ [][GateNext]_vars

\* The quality_gates rows written in the run, by the value of passed.
WrittenPassed == {g \in quality_gates : g.project_id \in rq.written /\ g.passed}
WrittenFailed == {g \in quality_gates : g.project_id \in rq.written /\ ~g.passed}

\* C39 as claimed: the summary execute returns agrees with the store: passed is the
\* number of quality_gates rows written in the run with passed = true and failed the
\* number written with passed = false.
C39_SummaryAgreesWithStore ==
    rq.pc = "returned" =>
       /\ rq.summary.passed = Cardinality(WrittenPassed)
       /\ rq.summary.failed = Cardinality(WrittenFailed)

\* C40: a failure of the tool run leaves execute with the exception and without a
\* quality_gates row written in the run; a failure saving one result is counted in
\* errors, writes nothing and the loop goes on to the next result; results for names
\* that are not pending are passed over without a write or a count; and
\* passed + failed + errors never exceeds total.
C40_ToolFailureRaisesSaveFailureCounts ==
    /\ [](rq.pc = "raised" => rq.exc # "none" /\ rq.written = {})
    /\ [](rq.pc \in {"import", "returned"} /\ rq.pending # << >> =>
             /\ rq.summary.total = Len(rq.pending)
             /\ rq.summary.passed + rq.summary.failed + rq.summary.errors
                   <= rq.summary.total
             /\ rq.summary.passed + rq.summary.failed = Cardinality(rq.written))
    /\ [][rq.pc \in {"idle", "token", "tool"} =>
             quality_gates' = quality_gates /\ gate_seq' = gate_seq]_vars
    /\ [][rq'.pc = "raised" /\ rq.pc # "raised" => rq.pc \in {"token", "tool"}]_vars
    /\ [][rq.pc = "import" /\ rq'.summary.errors # rq.summary.errors =>
             /\ rq'.summary.errors = rq.summary.errors + 1
             /\ quality_gates' = quality_gates
             /\ rq'.todo = Tail(rq.todo)
             /\ rq'.pc = IF Tail(rq.todo) = << >> THEN "returned" ELSE "import"]_vars
    /\ [][rq.pc = "import" /\ PendingIds(rq.pending, Head(rq.todo).full_name) = {} =>
             /\ quality_gates' = quality_gates
             /\ rq'.summary = rq.summary
             /\ rq'.written = rq.written
             /\ rq'.todo = Tail(rq.todo)]_vars
    /\ [][rq.pc = "import" /\ rq'.written # rq.written =>
             \E g \in quality_gates' :
                /\ g.project_id \in PendingIds(rq.pending, Head(rq.todo).full_name)
                /\ rq'.written = rq.written \cup {g.project_id}
                /\ g.dimensions = StoredDimensions(Head(rq.todo).metrics)]_vars

\* C40 witness: saving the first project's result failed and was counted, the second
\* project's result was saved after it, the result for a repository that was not
\* pending was passed over, and execute returned.
C40_Witness ==
    /\ rq.pc = "returned"
    /\ rq.summary.total = 2
    /\ rq.summary.errors = 1
    /\ rq.written = {2}
    /\ rq.ignored = {FullName(3)}
    /\ \E g \in quality_gates : g.project_id = 2
    /\ \A g \in quality_gates : g.project_id # 1
    /\ rq.summary.passed + rq.summary.failed = 1

====
